---- MODULE Spec2Model ----
(***************************************************************************)
(* A model of snowflake-api: the session manager (session.rs), the query   *)
(* path of the API handle (lib.rs) and the request dispatcher with its     *)
(* retry middleware (connection.rs).                                       *)
(***************************************************************************)
EXTENDS Integers, Sequences, FiniteSets, TLC

(* ------------------------------ bounds --------------------------------- *)
\* concurrent callers sharing one API handle
NumTasks == 2
\* exec()/close_session() calls started in one run
MaxCalls == 3
\* the clock stops ticking here
MaxTime == 2
\* exchanges that fail in one run
MaxFaults == 1

Tasks == 1..NumTasks
\* validityInSeconds values the server answers with (negative: never expires)
Validities == {-1, 1}

VARIABLES
    \* ---------------------- session.rs and lib.rs ----------------------
    auth_tokens,   \* Session.auth_tokens: None or an AuthTokens record
    lock,          \* holder of the futures Mutex around auth_tokens, 0 = free
    pc,            \* where each caller's exec() future stands
    old_token,     \* get_token's local: the pair taken out for renewal
    parts,         \* run_sql's local: the AuthParts get_token returned
    now,           \* the last reading of Instant::now(), in seconds
    calls,         \* number of API calls started
    \* history
    sent,          \* every HTTP request dispatched so far, in order
    cur,           \* per caller, what its latest exec() met and did
    closed,        \* what the latest close() met and did
    env,           \* what the environment has done so far
    \* ------------------------- connection.rs ---------------------------
    attempts,        \* what the server answered to each attempt of one request
    n_past_retries,  \* RetryTransientMiddleware's retry counter
    dstate,          \* where Connection::request stands
    result,          \* what Connection::request returned
    dreq,            \* the request as Connection::request handed it to the client
    uuids,           \* how many values Uuid::new_v4 has produced
    \* ------------------------------ lib.rs ------------------------------
    sql,             \* the statement given to exec(), as a sequence of lexemes
    route,           \* the flow exec() sent the statement down
    resp,            \* what run_sql returned to exec_arrow or exec_put
    xpc,             \* where exec_arrow or exec_put stands
    fetched,         \* per listed chunk, what its get_chunk future has given
    completion,      \* the chunk fetches, in the order they completed
    outcome,         \* what exec() returned
    qreq,            \* the query request run_sql dispatched
    \* ---------------------- lib.rs and upload_files.rs ------------------
    max_parallel_uploads,     \* SnowflakeApi.max_parallel_uploads
    max_file_size_threshold,  \* SnowflakeApi.max_file_size_threshold
    src_files,       \* the local files the globs of src_locations match
    files,           \* the UploadFiles that get_files built
    permits,         \* permits left in upload_files_parallel's semaphore
    spawned,         \* small files for which a task was spawned
    set,             \* upload_files_parallel's JoinSet: each task's state
    joinq,           \* the tasks that completed and were not joined yet
    large_inflight,  \* large files whose transfer is in flight
    large_done,      \* large files upload_files_sequential is done with
    store,           \* the objects put to the stage, in order
    failures,        \* history: the files whose upload failed, in order
    \* ---------------------------- responses.rs -------------------------
    data_fields,     \* the fields of the data object of a response body
    decoded,         \* the ExecResponse variant serde decoded the body as
    \* ---------------------------- jwt/src/lib.rs ------------------------
    private_key_pem, \* generate_jwt_token's first argument
    full_identifier, \* generate_jwt_token's second argument
    now_utc,         \* what OffsetDateTime::now_utc() reads, in milliseconds
    jwt,             \* what generate_jwt_token returned
    \* ------------------------ session.rs: AuthToken ---------------------
    validity,        \* the validity_in_seconds AuthToken::new was given
    auth_token,      \* the AuthToken it built
    instant,         \* the last reading of Instant::now(), in seconds
    expired,         \* what the last call of is_expired returned, and when
    \* ----------------------------- migration.rs ------------------------
    script,          \* the text given to split_query, as a sequence of lexemes
    statements,      \* what split_query returned
    queries,         \* the scripts given to AsyncTransaction::execute
    issued,          \* the statements execute has passed to exec(), in order
    mpc,             \* where execute is
    previous,        \* what the two SELECTs of execute returned
    todo,            \* the statements execute has still to run
    mresult          \* how execute ended

svars == <<auth_tokens, lock, pc, old_token, parts, now, calls, sent, cur, closed, env>>
dvars == <<attempts, n_past_retries, dstate, result, dreq, uuids>>
avars == <<sql, route, resp, xpc, fetched, completion, outcome, qreq>>
uvars == <<max_parallel_uploads, max_file_size_threshold, src_files, files, permits,
           spawned, set, joinq, large_inflight, large_done, store, failures>>
xvars == <<avars, uvars>>
kvars == <<data_fields, decoded>>
jvars == <<private_key_pem, full_identifier, now_utc, jwt>>
tvars == <<validity, auth_token, instant, expired>>
mvars == <<script, statements, queries, issued, mpc, previous, todo, mresult>>
fvars == <<kvars, jvars, tvars, mvars>>
vars == <<auth_tokens, lock, pc, old_token, parts, now, calls, sent, cur, closed, env,
          attempts, n_past_retries, dstate, result, dreq, uuids,
          sql, route, resp, xpc, fetched, completion, outcome, qreq,
          max_parallel_uploads, max_file_size_threshold, src_files, files, permits,
          spawned, set, joinq, large_inflight, large_done, store, failures,
          data_fields, decoded,
          private_key_pem, full_identifier, now_utc, jwt,
          validity, auth_token, instant, expired,
          script, statements, queries, issued, mpc, previous, todo, mresult>>

\* Option::None of the cached pair
None == [none |-> TRUE]
NoAuth == <<"NoAuth">>
NoParts == [session_token_auth_header |-> NoAuth, sequence_id |-> 0]

\* Duration::from_secs(u64::MAX): longer than any time the clock reaches
DurationMax == 2147483647

\* what Instant::now() may return next: the clock is monotonic
Readings == now..MaxTime

\* AuthToken::new; the token is stamped with the clock reading `at_time`
AuthTokenNew(token, validity_in_seconds, at_time) ==
    [token |-> token,
     valid_for |-> IF validity_in_seconds < 0 THEN DurationMax
                   ELSE validity_in_seconds,
     issued_on |-> at_time]

\* an is_expired that wants more than the validity to have passed
is_expired_strict(tok, at_time) == at_time - tok.issued_on > tok.valid_for

\* AuthToken::is_expired, Instant::now() reading `at_time`
is_expired(tok, at_time) == at_time - tok.issued_on >= tok.valid_for

\* AuthToken::auth_header: format!("Snowflake Token=\"{}\"", &self.token)
auth_header(tok) == <<"Snowflake Token=\"", tok.token, "\"">>

\* one dispatched HTTP request
Req(kind, auth, seq, params) ==
    [kind |-> kind, auth |-> auth, seq |-> seq, params |-> params]

\* what the cached pair looks like at time at_time to a caller that has
\* just taken the mutex
PairState(at, at_time) ==
    IF at = None THEN "none"
    ELSE LET m == at_time - at.master_token.issued_on >= at.master_token.valid_for
             s == at_time - at.session_token.issued_on >= at.session_token.valid_for
         IN CASE m /\ s -> "both_expired"
              [] m /\ ~s -> "master_expired"
              [] ~m /\ s -> "session_expired"
              [] OTHER -> "valid"

\* the server names its tokens: session sid, generation gen of that session
ServerToken(kind, sid, gen) == <<kind, sid, gen>>

\* an auth response body: the envelope's success flag and what its data
\* object is; data names the one struct whose required fields it has
\* ("login": LoginResponseData, "authenticator": AuthenticatorResponseData,
\* "renew": RenewSessionResponseData, "authn_method": AuthErrorResponseData),
\* or is "null", or is "other" when it is an object that fits none of them
AuthBody(success, data) == [success |-> success, data |-> data]
NoAnswer == AuthBody(FALSE, "none")
\* the request failed before any response was read
TransportError == AuthBody(FALSE, "no response")

\* a caller that has not called exec() yet
NoCall == [st |-> "", prev |-> 0, old_auth |-> NoAuth, reqs |-> <<>>, seq |-> 0,
           auth |-> NoAuth, ret |-> "", after_close |-> FALSE, first |-> FALSE,
           acq |-> 0, got |-> NoAnswer, close_ret |-> "", wire |-> <<>>]

\* Session::new; constructing the handle sends nothing
SessionInit ==
    /\ auth_tokens = None
    /\ lock = 0
    /\ pc = [t \in Tasks |-> "idle"]
    /\ old_token = [t \in Tasks |-> None]
    /\ parts = [t \in Tasks |-> NoParts]
    /\ now = 0
    /\ calls = 0
    /\ sent = <<>>
    /\ cur = [t \in Tasks |-> NoCall]
    /\ closed = [streak |-> 0, had_pair |-> FALSE, reqs |-> <<>>, ret |-> "",
                 got |-> NoAnswer, sent_ret |-> ""]
    /\ env = [faults |-> 0, login_failed |-> FALSE, expired |-> FALSE,
              overlapped |-> FALSE, closes |-> 0, sessions |-> 0, acq |-> 0]

\* no request has been built
NoRequest == [query |-> <<>>]
NoResult == [ret |-> "none", status |-> 0, body |-> "", carries |-> <<>>]

\* a Connection on which no request has been made
DispatcherIdle ==
    /\ attempts = <<>>
    /\ n_past_retries = 0
    /\ dstate = "idle"
    /\ result = NoResult
    /\ dreq = NoRequest
    /\ uuids = 0

\* an API handle on which exec() has not been called
NoResponse == [variant |-> "none"]
NoQuery == [query_type |-> "none", path |-> "", accept_mime |-> ""]
NoOutcome == [kind |-> "none", json |-> <<>>, batches |-> <<>>, err |-> "",
              code |-> "", message |-> "", cause |-> 0]

\* no statement has been classified
ClassifyIdle ==
    /\ sql = <<>>
    /\ route = "none"

\* no statement is being executed
FlowIdle ==
    /\ resp = NoResponse
    /\ xpc = "idle"
    /\ fetched = <<>>
    /\ completion = <<>>
    /\ outcome = NoOutcome
    /\ qreq = NoQuery

\* UploadFiles before any file was pushed
NoFiles == [small_files |-> <<>>, large_files |-> <<>>, threshold |-> 0]

\* SnowflakeApi::new sets the two PUT settings
ApiSettings ==
    /\ max_parallel_uploads = 4
    /\ max_file_size_threshold = 64000000

\* no PUT is under way
UploadIdle ==
    /\ src_files = <<>>
    /\ files = NoFiles
    /\ permits = 0
    /\ spawned = 0
    /\ set = <<>>
    /\ joinq = <<>>
    /\ large_inflight = {}
    /\ large_done = 0
    /\ store = <<>>
    /\ failures = <<>>

ExecIdle == ClassifyIdle /\ FlowIdle /\ ApiSettings /\ UploadIdle

\* no response body is being decoded
DecodeIdle ==
    /\ data_fields = {}
    /\ decoded = "none"

\* no JWT is being issued
NoJwt == [ok |-> FALSE, err |-> "", claims |-> <<>>]
JwtIdle ==
    /\ private_key_pem = ""
    /\ full_identifier = ""
    /\ now_utc = 0
    /\ jwt = NoJwt

\* no AuthToken is being examined
NoToken == [token |-> "", valid_for |-> 0, issued_on |-> 0]
NoCheck == [at |-> 0 - 1, value |-> FALSE]
TokenIdle ==
    /\ validity = 0
    /\ auth_token = NoToken
    /\ instant = 0
    /\ expired = NoCheck

\* the functions modelled on their own are not in use
\* no script is being split and no migration is being run
NoPrevious == [database_result |-> "", database |-> "", role |-> ""]
MigrationIdle ==
    /\ script = <<>>
    /\ statements = <<>>
    /\ queries = <<>>
    /\ issued = <<>>
    /\ mpc = "idle"
    /\ previous = NoPrevious
    /\ todo = <<>>
    /\ mresult = "none"

FunctionsIdle == DecodeIdle /\ JwtIdle /\ TokenIdle /\ MigrationIdle

Init == SessionInit /\ DispatcherIdle /\ FunctionsIdle /\ ExecIdle

\* a mutex that admits every caller
MutexFree_open == TRUE

\* the mutex admits one holder
MutexFree == lock = 0

\* a login on every call
NeedsLogin_always(at, at_time) == TRUE

\* a login only when no pair is cached
NeedsLogin_absent(at, at_time) == at = None

\* get_token, first condition: no pair, or a pair that cannot be exchanged
NeedsLogin(at, at_time) ==
    IF at = None THEN TRUE ELSE is_expired(at.master_token, at_time)

\* a get_token that never renews
NeedsRenew_never(at, at_time) == FALSE

\* get_token, second condition
NeedsRenew(at, at_time) ==
    IF at = None THEN FALSE ELSE is_expired(at.session_token, at_time)

\* a get_token that forgets the increment
IncrementSequence_skip(at) == at

\* auth_tokens.as_mut().unwrap().sequence_id += 1
IncrementSequence(at) == [at EXCEPT !.sequence_id = @ + 1]

\* AuthParts built from the cached pair
AuthPartsOf(at) ==
    [session_token_auth_header |-> auth_header(at.session_token),
     sequence_id |-> at.sequence_id]

\* the body and headers run_sql gives Connection::request
QueryRequest(p) == Req("query", p.session_token_auth_header, p.sequence_id, <<>>)

\* ExponentialBackoff::builder().build_with_max_retries(3)
MaxRetries == 3

\* the retry policy: retry while fewer than MaxRetries retries were made
should_retry(n) == n < MaxRetries

\* a retry that would stamp the following sequence id on the copy
try_clone_next_seq(req) == [req EXCEPT !.seq = @ + 1]

\* what the retry middleware sends again: a copy of the request it was given
try_clone(req) == req

\* the caller's record when it takes the mutex and reads the clock
Met(t, at, at_time) ==
    [cur[t] EXCEPT !.st = PairState(at, at_time),
                   !.prev = IF at = None THEN 0 ELSE at.sequence_id,
                   !.old_auth = IF at = None THEN NoAuth
                                ELSE auth_header(at.session_token),
                   !.after_close = closed.streak > 0,
                   !.first = (env.acq = 0),
                   !.close_ret = IF closed.streak > 0 THEN closed.sent_ret ELSE "",
                   !.acq = env.acq + 1]

EnvAt(at, at_time) ==
    [env EXCEPT !.expired = @ \/ PairState(at, at_time) \notin {"none", "valid"},
                !.acq = @ + 1]

\* SnowflakeApi::exec is called: run_sql awaits get_token, which awaits the lock
ExecCall(t) ==
    /\ pc[t] = "idle"
    /\ calls < MaxCalls
    /\ calls' = calls + 1
    /\ pc' = [pc EXCEPT ![t] = "lock"]
    /\ cur' = [cur EXCEPT ![t] = NoCall]
    /\ env' = [env EXCEPT !.overlapped = @ \/ \E u \in Tasks : pc[u] # "idle"]
    /\ UNCHANGED <<auth_tokens, lock, old_token, parts, now, sent, closed>>
    /\ UNCHANGED <<dvars, xvars, fvars>>

\* get_token with a valid cached pair: lock, increment, return, unlock; run_sql
\* goes on to dispatch the query
GetTokenCached(t) ==
    /\ pc[t] = "lock"
    /\ MutexFree
    /\ \E at_time \in Readings :
          /\ now' = at_time
          /\ ~NeedsLogin(auth_tokens, at_time)
          /\ ~NeedsRenew(auth_tokens, at_time)
          /\ auth_tokens' = IncrementSequence(auth_tokens)
          /\ parts' = [parts EXCEPT ![t] = AuthPartsOf(auth_tokens')]
          /\ sent' = Append(sent, QueryRequest(parts'[t]))
          /\ cur' = [cur EXCEPT ![t] = [Met(t, auth_tokens, at_time) EXCEPT
                                           !.reqs = <<"query">>,
                                           !.wire = <<QueryRequest(parts'[t])>>,
                                           !.seq = parts'[t].sequence_id,
                                           !.auth = parts'[t].session_token_auth_header]]
          /\ env' = EnvAt(auth_tokens, at_time)
    /\ pc' = [pc EXCEPT ![t] = "query"]
    /\ closed' = [closed EXCEPT !.streak = 0]
    /\ UNCHANGED <<lock, old_token, calls>>
    /\ UNCHANGED <<dvars, xvars, fvars>>

\* get_token, login branch: the login request goes out with the lock held
GetTokenCreate(t) ==
    /\ pc[t] = "lock"
    /\ MutexFree
    /\ \E at_time \in Readings :
          /\ now' = at_time
          /\ NeedsLogin(auth_tokens, at_time)
          /\ cur' = [cur EXCEPT ![t] = [Met(t, auth_tokens, at_time) EXCEPT
                                           !.reqs = <<"login">>]]
          /\ env' = EnvAt(auth_tokens, at_time)
    /\ sent' = Append(sent, Req("login", NoAuth, 0, <<>>))
    /\ lock' = t
    /\ pc' = [pc EXCEPT ![t] = "create"]
    /\ closed' = [closed EXCEPT !.streak = 0]
    /\ UNCHANGED <<auth_tokens, old_token, parts, calls>>
    /\ UNCHANGED <<dvars, xvars, fvars>>

\* a renewal sent under the session token
renew_auth_session(token) == auth_header(token.session_token)

\* Session::renew: let auth = token.master_token.auth_header()
renew_auth(token) == auth_header(token.master_token)

\* get_token, renew branch: the pair is taken out of the cache and the renew
\* request goes out under the master token, with the lock held
GetTokenRenew(t) ==
    /\ pc[t] = "lock"
    /\ MutexFree
    /\ \E at_time \in Readings :
          /\ now' = at_time
          /\ ~NeedsLogin(auth_tokens, at_time)
          /\ NeedsRenew(auth_tokens, at_time)
          /\ cur' = [cur EXCEPT ![t] = [Met(t, auth_tokens, at_time) EXCEPT
                                           !.reqs = <<"renew">>]]
          /\ env' = EnvAt(auth_tokens, at_time)
    /\ sent' = Append(sent, Req("renew", renew_auth(auth_tokens), 0, <<>>))
    /\ lock' = t
    /\ old_token' = [old_token EXCEPT ![t] = auth_tokens]
    /\ auth_tokens' = None
    /\ pc' = [pc EXCEPT ![t] = "renew"]
    /\ closed' = [closed EXCEPT !.streak = 0]
    /\ UNCHANGED <<parts, calls>>
    /\ UNCHANGED <<dvars, xvars, fvars>>

\* a login that starts the sequence one too high
create_sequence_id_one == 0 + 1

\* sequence_id of the pair Session::create builds
create_sequence_id == 0

\* a renewal that restarts the sequence
renew_sequence_id_reset(token) == token.sequence_id - token.sequence_id

\* sequence_id of the pair Session::renew builds
renew_sequence_id(token) == token.sequence_id

\* a guard that lives until exec() returns
GuardAfterGetToken_held(t) == t

\* the holder of the mutex once get_token has returned: the guard is a local
\* of get_token and is dropped with it
GuardAfterGetToken(t) == 0

\* the tail of get_token once a new pair is in hand: cache it, increment,
\* return the parts, drop the guard; run_sql goes on to dispatch the query
InstallAndReturn(t, tokens, ans) ==
    /\ auth_tokens' = IncrementSequence(tokens)
    /\ parts' = [parts EXCEPT ![t] = AuthPartsOf(auth_tokens')]
    /\ lock' = GuardAfterGetToken(t)
    /\ pc' = [pc EXCEPT ![t] = "query"]
    /\ sent' = Append(sent, QueryRequest(parts'[t]))
    /\ cur' = [cur EXCEPT ![t].reqs = Append(@, "query"),
                          ![t].seq = parts'[t].sequence_id,
                          ![t].auth = parts'[t].session_token_auth_header,
                          ![t].wire = <<QueryRequest(parts'[t])>>,
                          ![t].got = ans]

\* the `?` on a failed create/renew: the guard drops, exec returns the error
FailAndReturn(t, err, ans) ==
    /\ env.faults < MaxFaults
    /\ env' = [env EXCEPT !.faults = @ + 1,
                          !.login_failed = @ \/ pc[t] = "create"]
    /\ lock' = 0
    /\ pc' = [pc EXCEPT ![t] = "idle"]
    /\ cur' = [cur EXCEPT ![t].ret = err, ![t].got = ans]
    /\ UNCHANGED <<auth_tokens, parts, sent>>

\* the variants of AuthResponse in the order the enum declares them
AuthResponseVariants == <<"Login", "Auth", "Renew", "Close", "Error">>

\* whether a body deserializes as a variant: the data object must be the
\* variant's struct; Close is BaseRestResponse<Option<()>>, which takes a
\* null data whatever the success flag says
AuthMatches(variant, b) ==
    CASE variant = "Login" -> b.data = "login"
      [] variant = "Auth" -> b.data = "authenticator"
      [] variant = "Renew" -> b.data = "renew"
      [] variant = "Close" -> b.data = "null"
      [] variant = "Error" -> b.data = "authn_method"

\* resp.json::<AuthResponse>(): serde(untagged) takes the first variant that
\* matches, and fails when none does
DecodeAuth(b) ==
    LET matching == {i \in DOMAIN AuthResponseVariants :
                        AuthMatches(AuthResponseVariants[i], b)}
    IN IF matching = {} THEN "DecodeError"
       ELSE AuthResponseVariants[CHOOSE i \in matching : \A j \in matching : i <= j]

\* the bodies a server answers an auth request with
AuthBodies ==
    {AuthBody(TRUE, d) : d \in {"login", "authenticator", "renew", "null", "other"}}
        \cup {AuthBody(FALSE, d) : d \in {"authn_method", "null", "other"}}
AuthAnswers == AuthBodies \cup {TransportError}

\* what create, renew and close make of an answer: the `?` on
\* Connection::request, then the match on the decoded variant
AuthResult(expected, ans) ==
    IF ans = TransportError \/ DecodeAuth(ans) = "DecodeError" THEN "RequestError"
    ELSE IF DecodeAuth(ans) = expected THEN "Ok"
    ELSE IF DecodeAuth(ans) = "Error" THEN "AuthFailed"
    ELSE "UnexpectedResponse"

\* Session::create returns: the login response arrives
CreateResp(t) ==
    /\ pc[t] = "create"
    /\ \E ans \in AuthAnswers :
          IF AuthResult("Login", ans) = "Ok"
          THEN \E sv \in Validities, mv \in Validities :
                 LET sid == env.sessions + 1
                     tokens == [session_token |->
                                    AuthTokenNew(ServerToken("session", sid, 0), sv, now),
                                master_token |->
                                    AuthTokenNew(ServerToken("master", sid, 0), mv, now),
                                sequence_id |-> create_sequence_id]
                 IN /\ InstallAndReturn(t, tokens, ans)
                    /\ env' = [env EXCEPT !.sessions = sid]
          ELSE FailAndReturn(t, AuthResult("Login", ans), ans)
    /\ UNCHANGED <<old_token, calls, now, closed>>
    /\ UNCHANGED <<dvars, xvars, fvars>>

\* Session::renew returns: the renew response arrives
RenewResp(t) ==
    /\ pc[t] = "renew"
    /\ \E ans \in AuthAnswers :
          IF AuthResult("Renew", ans) = "Ok"
          THEN \E sv \in Validities, mv \in Validities :
                 LET old == old_token[t]
                     sid == old.session_token.token[2]
                     gen == old.session_token.token[3] + 1
                     tokens == [session_token |->
                                    AuthTokenNew(ServerToken("session", sid, gen), sv, now),
                                master_token |->
                                    AuthTokenNew(ServerToken("master", sid, gen), mv, now),
                                sequence_id |-> renew_sequence_id(old)]
                 IN /\ InstallAndReturn(t, tokens, ans)
                    /\ UNCHANGED env
          ELSE FailAndReturn(t, AuthResult("Renew", ans), ans)
    /\ old_token' = [old_token EXCEPT ![t] = None]
    /\ UNCHANGED <<calls, now, closed>>
    /\ UNCHANGED <<dvars, xvars, fvars>>

\* a query attempt met a transient failure and the retry middleware sends the
\* request again; run_sql is still inside its one Connection::request
QueryRetry(t) ==
    /\ pc[t] = "query"
    /\ should_retry(Len(cur[t].wire) - 1)
    /\ cur' = [cur EXCEPT ![t].wire = Append(@, try_clone(Head(@)))]
    /\ UNCHANGED <<auth_tokens, lock, pc, old_token, parts, now, calls, sent, closed, env>>
    /\ UNCHANGED <<dvars, xvars, fvars>>

\* the query response arrives and exec returns
QueryResp(t) ==
    /\ pc[t] = "query"
    /\ \E out \in {"Ok", "Err"} :
          /\ out = "Err" => env.faults < MaxFaults
          /\ env' = [env EXCEPT !.faults = IF out = "Err" THEN @ + 1 ELSE @]
          /\ cur' = [cur EXCEPT ![t].ret = out]
    /\ pc' = [pc EXCEPT ![t] = "idle"]
    /\ parts' = [parts EXCEPT ![t] = NoParts]
    /\ UNCHANGED <<auth_tokens, lock, old_token, now, calls, sent, closed>>
    /\ UNCHANGED <<dvars, xvars, fvars>>

\* a close() that leaves the pair cached
TokensAfterClose_kept(at) == at

\* what close() leaves in the cache: take() empties it
TokensAfterClose(at) == None

\* a close() that posts the delete whether or not a pair is cached
CloseRequests_always(at) ==
    <<Req("close", IF at = None THEN NoAuth ELSE auth_header(at.session_token), 0,
          <<"delete", "true">>)>>

\* the requests close() makes: one when take() gave a pair, none otherwise
CloseRequests(at) ==
    IF at # None
    THEN <<Req("close", auth_header(at.session_token), 0, <<"delete", "true">>)>>
    ELSE <<>>

\* Session::close through SnowflakeApi::close_session. It borrows the handle
\* mutably, so no exec() is in flight while it runs.
Close ==
    /\ \A t \in Tasks : pc[t] = "idle"
    /\ calls < MaxCalls
    /\ calls' = calls + 1
    /\ auth_tokens' = TokensAfterClose(auth_tokens)
    /\ IF auth_tokens # None
       THEN \E ans \in AuthAnswers :
              /\ ans # AuthBody(TRUE, "null") => env.faults < MaxFaults
              /\ env' = [env EXCEPT !.faults = IF ans = AuthBody(TRUE, "null")
                                               THEN @ ELSE @ + 1,
                                    !.closes = @ + 1]
              /\ sent' = sent \o CloseRequests(auth_tokens)
              /\ closed' = [streak |-> closed.streak + 1, had_pair |-> TRUE,
                            reqs |-> [i \in DOMAIN CloseRequests(auth_tokens) |->
                                         CloseRequests(auth_tokens)[i].kind],
                            ret |-> AuthResult("Close", ans),
                            got |-> ans, sent_ret |-> AuthResult("Close", ans)]
       ELSE /\ env' = [env EXCEPT !.closes = @ + 1]
            /\ sent' = sent \o CloseRequests(auth_tokens)
            /\ closed' = [streak |-> closed.streak + 1, had_pair |-> FALSE,
                          reqs |-> [i \in DOMAIN CloseRequests(auth_tokens) |->
                                       CloseRequests(auth_tokens)[i].kind],
                          ret |-> "Ok", got |-> NoAnswer,
                          sent_ret |-> closed.sent_ret]
    /\ UNCHANGED <<lock, pc, old_token, parts, now, cur>>
    /\ UNCHANGED <<dvars, xvars, fvars>>

Next ==
    \/ \E t \in Tasks : ExecCall(t)
    \/ \E t \in Tasks : GetTokenCached(t)
    \/ \E t \in Tasks : GetTokenCreate(t)
    \/ \E t \in Tasks : GetTokenRenew(t)
    \/ \E t \in Tasks : CreateResp(t)
    \/ \E t \in Tasks : RenewResp(t)
    \/ \E t \in Tasks : QueryRetry(t)
    \/ \E t \in Tasks : QueryResp(t)
    \/ Close

Spec == Init /\ [][Next]_vars


(* ------------------------ claims: the session -------------------------- *)
IsQuery(r) == r.kind = "query"
Queries == SelectSeq(sent, IsQuery)
\* sequenceId of each query request, in dispatch order
QuerySeqs == [i \in DOMAIN Queries |-> Queries[i].seq]
\* session the token of an auth header belongs to, and its generation
SidOf(auth) == auth[2][2]
GenOf(auth) == auth[2][3]
QueriesOf(sid) == {i \in DOMAIN sent : sent[i].kind = "query" /\ SidOf(sent[i].auth) = sid}
Count(kind) == Cardinality({i \in DOMAIN sent : sent[i].kind = kind})
IsPrefix(a, b) == Len(a) <= Len(b) /\ \A i \in DOMAIN a : a[i] = b[i]
\* the caller that took the mutex last still has its query in flight
Latest(t) == pc[t] = "query" /\ cur[t].acq = env.acq
CacheMatches(t) ==
    /\ auth_tokens # None
    /\ AuthPartsOf(auth_tokens) =
         [session_token_auth_header |-> cur[t].auth, sequence_id |-> cur[t].seq]

\* C1: when exec() calls follow one another on one session (none overlaps
\* another, no token is found expired, the session is not closed), the
\* sequenceId values stamped on the query requests are 1, 2, ..., N in call
\* order, one query request per call whose login succeeded.
C1_SequenceIds ==
    (~env.overlapped /\ ~env.expired /\ env.closes = 0) =>
        /\ QuerySeqs = [i \in 1..Len(QuerySeqs) |-> i]
        /\ ((\A t \in Tasks : pc[t] = "idle") /\ ~env.login_failed) =>
               Len(QuerySeqs) = calls

C1_Witness ==
    /\ ~env.overlapped /\ ~env.expired /\ env.closes = 0
    /\ Len(QuerySeqs) = MaxCalls
    /\ QuerySeqs[1] = 1 /\ QuerySeqs[MaxCalls] = MaxCalls
    /\ \A t \in Tasks : pc[t] = "idle"

\* C2: under any interleaving, the sequence ids handed out within one
\* session are 1, 2, 3, ... in the order they are handed out: strictly
\* increasing, none twice, none skipped; and the cached counter is the last
\* one handed out.
C2_NeverReused ==
    /\ \A sid \in 1..env.sessions :
          /\ \A i, j \in QueriesOf(sid) : i < j => sent[i].seq < sent[j].seq
          /\ {sent[i].seq : i \in QueriesOf(sid)} = 1..Cardinality(QueriesOf(sid))
    /\ auth_tokens # None =>
          auth_tokens.sequence_id =
              Cardinality(QueriesOf(auth_tokens.session_token.token[2]))

C2_Witness ==
    /\ env.overlapped
    /\ \A t \in Tasks : pc[t] = "query"
    /\ \A t, u \in Tasks : t # u =>
          /\ SidOf(cur[t].auth) = SidOf(cur[u].auth)
          /\ cur[t].seq # cur[u].seq
    /\ cur[NumTasks].seq = 1

\* C3: from a fresh session whose login is answered with tokens that do not
\* expire during the run, any number of concurrent exec() calls cause
\* exactly one login request in total (and no renew request).
C3_OneLogin ==
    (~env.expired /\ env.closes = 0 /\ ~env.login_failed) =>
        /\ Count("login") <= 1
        /\ Count("renew") = 0
        /\ Count("query") > 0 => Count("login") = 1

C3_Witness ==
    /\ ~env.expired /\ env.closes = 0 /\ ~env.login_failed
    /\ env.overlapped
    /\ \A t \in Tasks : pc[t] = "query"
    /\ Count("login") = 1

\* C4: an exec() that finds the session token expired and the master token
\* valid issues exactly one renew request and no login; when the renewal
\* succeeds, the renewed pair is installed and the query carries the previous
\* sequence_id plus 1, under the renewed session token of the same session.
C4_RenewContinues ==
    \A t \in Tasks : cur[t].st = "session_expired" =>
        /\ cur[t].reqs \in {<<"renew">>, <<"renew", "query">>}
        /\ Len(cur[t].reqs) = 2 =>
              /\ cur[t].seq = cur[t].prev + 1
              /\ cur[t].prev >= 1
              /\ SidOf(cur[t].auth) = SidOf(cur[t].old_auth)
              /\ GenOf(cur[t].auth) = GenOf(cur[t].old_auth) + 1
        /\ Latest(t) => CacheMatches(t)

C4_Witness ==
    \E t \in Tasks :
        /\ cur[t].st = "session_expired"
        /\ cur[t].reqs = <<"renew", "query">>
        /\ cur[t].prev = 2 /\ cur[t].seq = 3
        /\ Latest(t)

\* C5: an exec() that finds the master token expired (the session token
\* expired or not) performs a fresh login and no renew; when the login
\* succeeds the pair of a new session is installed and the query carries
\* sequence_id 1, whatever the old pair's counter was.
C5_MasterExpiryLogin ==
    \A t \in Tasks : cur[t].st \in {"master_expired", "both_expired"} =>
        /\ cur[t].reqs \in {<<"login">>, <<"login", "query">>}
        /\ Len(cur[t].reqs) = 2 =>
              /\ cur[t].seq = 1
              /\ SidOf(cur[t].auth) > SidOf(cur[t].old_auth)
              /\ GenOf(cur[t].auth) = 0
        /\ Latest(t) => CacheMatches(t)

C5_Witness ==
    \E t \in Tasks :
        /\ cur[t].st = "both_expired"
        /\ cur[t].reqs = <<"login", "query">>
        /\ cur[t].prev = 2 /\ cur[t].seq = 1
        /\ Latest(t)

\* C6: constructing the handle sends no request; the first exec() to run sends a
\* login and then, once the login has succeeded, the query with sequenceId 1:
\* these are the first two requests on the wire and the call makes no other.
C6_FirstExec ==
    /\ calls = 0 => sent = <<>>
    /\ \A t \in Tasks : cur[t].first =>
          /\ IsPrefix(cur[t].reqs, <<"login", "query">>)
          /\ cur[t].st # "" =>
                /\ cur[t].st = "none"
                /\ sent[1] = Req("login", NoAuth, 0, <<>>)
          /\ cur[t].ret \in {"Ok", "Err"} =>
                /\ cur[t].reqs = <<"login", "query">>
                /\ cur[t].seq = 1
                /\ sent[2].kind = "query" /\ sent[2].seq = 1

C6_Witness ==
    \E t \in Tasks :
        /\ cur[t].first /\ cur[t].ret = "Ok"
        /\ cur[t].reqs = <<"login", "query">>
        /\ calls = 1 /\ Len(sent) = 2 /\ sent[2].seq = 1

\* C7: close() with a pair cached posts one close request (delete=true, under
\* the session token) and drops the pair; with no pair cached it sends
\* nothing and returns Ok; so a close() right after a close() is a no-op.
C7_CloseIdempotent ==
    /\ Count("close") <= env.closes
    /\ closed.streak > 0 =>
          /\ auth_tokens = None
          /\ closed.had_pair =>
                /\ closed.reqs = <<"close">>
                /\ sent[Len(sent)].kind = "close"
                /\ sent[Len(sent)].params = <<"delete", "true">>
                /\ sent[Len(sent)].auth[1] = "Snowflake Token=\""
                /\ sent[Len(sent)].auth[2][1] = "session"
          /\ ~closed.had_pair => closed.reqs = <<>> /\ closed.ret = "Ok"
          /\ closed.streak >= 2 => ~closed.had_pair

C7_Witness ==
    /\ closed.streak = 2
    /\ Count("close") = 1
    /\ sent[Len(sent)].kind = "close"
    /\ closed.reqs = <<>> /\ closed.ret = "Ok"

\* C8: the first exec() to run after close_session() finds no pair: it logs
\* in before its query, and that query carries sequenceId 1 in a new session.
C8_ReloginAfterClose ==
    \A t \in Tasks : cur[t].after_close =>
        /\ cur[t].st = "none"
        /\ IsPrefix(cur[t].reqs, <<"login", "query">>)
        /\ Len(cur[t].reqs) = 2 => cur[t].seq = 1 /\ GenOf(cur[t].auth) = 0

C8_Witness ==
    \E t \in Tasks :
        /\ cur[t].after_close
        /\ Count("close") = 1
        /\ cur[t].reqs = <<"login", "query">>
        /\ cur[t].seq = 1
        /\ SidOf(cur[t].auth) = 2

\* the Authorization header value built from a token of the given kind
HeaderOf(auth, kind) ==
    /\ Len(auth) = 3
    /\ auth[1] = "Snowflake Token=\"" /\ auth[3] = "\""
    /\ auth[2][1] = kind

\* C25: a login request carries no Authorization header, a renew request the
\* master token's header, a query or close request the session token's
\* header, of the form Snowflake Token="{token}"; the master token is never
\* sent on a query or close request.
C25_AuthorizationPerKind ==
    \A i \in DOMAIN sent :
        /\ sent[i].kind = "login" => sent[i].auth = NoAuth
        /\ sent[i].kind = "renew" => HeaderOf(sent[i].auth, "master")
        /\ sent[i].kind \in {"query", "close"} =>
              /\ HeaderOf(sent[i].auth, "session")
              /\ ~HeaderOf(sent[i].auth, "master")

C25_Witness ==
    /\ Len(sent) > 4
    /\ sent[1].kind = "login" /\ sent[1].auth = NoAuth
    /\ \E i \in DOMAIN sent :
          sent[i].kind = "renew" /\ sent[i].auth = <<"Snowflake Token=\"",
                                                     ServerToken("master", 1, 0), "\"">>
    /\ sent[Len(sent)].kind = "close"
    /\ sent[Len(sent)].auth = <<"Snowflake Token=\"", ServerToken("session", 1, 1), "\"">>

\* the login and renew requests one get_token call has issued
AuthRequests(t) ==
    LET IsAuth(k) == k \in {"login", "renew"} IN SelectSeq(cur[t].reqs, IsAuth)

\* C26: one get_token call issues at most one login-or-renew request: a login
\* when no pair is cached or the master token is expired, a renew when only
\* the session token is expired, none when both tokens are valid.
C26_OneRecoveryPerCall ==
    \A t \in Tasks :
        cur[t].st # "" =>
            /\ Len(AuthRequests(t)) <= 1
            /\ cur[t].st \in {"none", "master_expired", "both_expired"} =>
                  AuthRequests(t) = <<"login">>
            /\ cur[t].st = "session_expired" => AuthRequests(t) = <<"renew">>
            /\ cur[t].st = "valid" => AuthRequests(t) = <<>>

C26_Witness ==
    \E t, u \in Tasks :
        /\ cur[t].st = "valid" /\ cur[t].reqs = <<"query">>
        /\ cur[u].st = "session_expired" /\ cur[u].reqs = <<"renew", "query">>

\* what the claim calls the shape of an answer to an exchange
IsExpectedShape(exchange, b) ==
    /\ b.success
    /\ b.data = (CASE exchange = "login" -> "login"
                   [] exchange = "renew" -> "renew"
                   [] exchange = "close" -> "null")
IsServerError(b) == ~b.success
Answered(b) == b \in AuthBodies

\* C27: in a login, renew or close exchange the expected variant succeeds, a
\* server-reported error gives AuthFailed, and any other or unrecognisable
\* shape gives UnexpectedResponse and installs no tokens.
C27_AuthDispatch ==
    /\ \A t \in Tasks :
          Answered(cur[t].got) =>
              LET b == cur[t].got
                  exchange == cur[t].reqs[1]
              IN IF IsExpectedShape(exchange, b)
                 THEN cur[t].reqs = <<exchange, "query">>
                 ELSE /\ cur[t].reqs = <<exchange>>
                      /\ cur[t].ret = IF IsServerError(b) THEN "AuthFailed"
                                      ELSE "UnexpectedResponse"
    /\ Answered(closed.got) =>
          closed.ret = IF IsExpectedShape("close", closed.got) THEN "Ok"
                       ELSE IF IsServerError(closed.got) THEN "AuthFailed"
                       ELSE "UnexpectedResponse"

\* C28: the session mutex is held only while get_token runs: it is free of a
\* caller whose query request is in flight, one caller at most is inside a
\* login or a renew, and two callers can have their queries in flight at once.
C28_MutexScope ==
    /\ \A t \in Tasks :
          /\ pc[t] = "query" => lock # t
          /\ lock = t <=> pc[t] \in {"create", "renew"}
    /\ Cardinality({t \in Tasks : pc[t] \in {"create", "renew"}}) <= 1

C28_Witness ==
    /\ \A t \in Tasks : pc[t] = "query"
    /\ lock = 0
    /\ Len(Queries) = NumTasks
    /\ \E t \in Tasks : cur[t].reqs = <<"login", "query">>

\* a caller's get_token returns an error in this step
FetchFails(t) == pc[t] \in {"create", "renew"} /\ pc'[t] = "idle"
\* the cached pair as it was when that call took the mutex
PairBefore(t) == IF pc[t] = "renew" THEN old_token[t] ELSE auth_tokens

\* C31: when get_token returns an error because the login or the renew
\* failed, the cached pair is what it was before the call, its sequence_id
\* included.
C31_FailedFetchKeepsCache ==
    [][\A t \in Tasks : FetchFails(t) => auth_tokens' = PairBefore(t)]_vars

AuthErrors == {"AuthFailed", "UnexpectedResponse", "RequestError"}

\* C32: a close() that fails returns its error after the one request it
\* made; whether close() returned Ok or an error the session holds no pair
\* afterwards, so a close() that follows sends nothing and an exec() that
\* follows logs in again.
C32_FailedClose ==
    /\ closed.streak > 0 =>
          /\ auth_tokens = None
          /\ closed.had_pair =>
                /\ closed.reqs = <<"close">>
                /\ closed.ret = AuthResult("Close", closed.got)
          /\ (closed.streak >= 2 /\ closed.sent_ret \in AuthErrors) =>
                closed.reqs = <<>> /\ closed.ret = "Ok"
    /\ Count("close") <= env.closes
    /\ \A t \in Tasks :
          (cur[t].close_ret \in AuthErrors /\ cur[t].st # "") =>
              /\ cur[t].st = "none"
              /\ Len(cur[t].reqs) > 0 => cur[t].reqs[1] = "login"
              /\ Len(cur[t].reqs) = 2 => cur[t].seq = 1

C32_Witness ==
    \E t \in Tasks :
        /\ cur[t].close_ret = "AuthFailed"
        /\ cur[t].reqs = <<"login", "query">>
        /\ sent[Len(sent) - 2].kind = "close"
        /\ Count("close") = 1

\* the exec() calls that were given token parts
Fetched(t) == cur[t].seq # 0

\* C33: an exec() whose token fetch succeeded moved the session's counter by
\* exactly one (to 1 after a login, to the previous value plus one otherwise);
\* every attempt the HTTP layer makes for its query carries that same
\* sequenceId, authorization and body, with no further token fetch and no
\* further move of the counter; and once the query has failed, the counter of
\* that session is at or past its sequenceId, so no later exec() is given it.
C33_OneStepPerExec ==
    \A t \in Tasks :
        Fetched(t) =>
            /\ cur[t].seq = IF Len(AuthRequests(t)) = 1 /\ AuthRequests(t)[1] = "login"
                            THEN 1 ELSE cur[t].prev + 1
            /\ Len(cur[t].wire) \in 1..(MaxRetries + 1)
            /\ \A i \in DOMAIN cur[t].wire :
                  cur[t].wire[i] = Req("query", cur[t].auth, cur[t].seq, <<>>)
            /\ Len(SelectSeq(cur[t].reqs, LAMBDA k : k = "query")) = 1
            /\ Latest(t) => auth_tokens.sequence_id = cur[t].seq
            /\ (auth_tokens # None /\
                   SidOf(auth_header(auth_tokens.session_token)) = SidOf(cur[t].auth)) =>
                  auth_tokens.sequence_id >= cur[t].seq
            /\ \A u \in Tasks :
                  (u # t /\ Fetched(u) /\ SidOf(cur[u].auth) = SidOf(cur[t].auth)) =>
                      cur[u].seq # cur[t].seq

C33_Witness ==
    \E t, u \in Tasks :
        /\ pc[t] = "idle" /\ cur[t].ret = "Err"
        /\ Len(cur[t].wire) = MaxRetries + 1
        /\ Fetched(u) /\ cur[u].acq > cur[t].acq
        /\ SidOf(cur[u].auth) = SidOf(cur[t].auth)
        /\ cur[u].seq = cur[t].seq + 1

(* --------------------------- connection.rs ----------------------------- *)
\* what one attempt can meet: a response with a status, or a failure to get one
Statuses == {200, 403, 404, 408, 429, 500, 503}
SendErrors == {"connect", "timeout", "redirect"}
Response(status) == [status |-> status, err |-> ""]
SendError(err) == [status |-> 0, err |-> err]
\* an attempt: what went out on the wire and what came back
AttemptOf(req, ans) == [status |-> ans.status, err |-> ans.err, query |-> req.query]
Answers == {Response(st) : st \in Statuses} \cup {SendError(e) : e \in SendErrors}

\* how RetryTransientMiddleware classifies the outcome of an attempt
Retryable(ans) ==
    IF ans.err # ""
    THEN IF ans.err \in {"connect", "timeout"} THEN "Transient" ELSE "Fatal"
    ELSE IF ans.status \in 500..599 THEN "Transient"
    ELSE IF ans.status \in 400..499 /\ ans.status # 408 /\ ans.status # 429
         THEN "Fatal"
    ELSE IF ans.status \in 200..299 THEN "None"
    ELSE IF ans.status = 408 \/ ans.status = 429 THEN "Transient"
    ELSE "Fatal"

\* the bodies a response can have: JSON of the target type, JSON of another
\* shape, and text that is not JSON
Bodies == {"valid", "mismatch", "invalid"}

\* what request() returns once the client has handed it a response: the body
\* parsed as the target type, whatever the status; when serde rejects the
\* body, reqwest's decode error, which holds serde's message
ParseResponse(status, body) ==
    [ret |-> IF body = "valid" THEN "Ok" ELSE "RequestError",
     status |-> status, body |-> body,
     carries |-> IF body = "valid" THEN <<"value", body>> ELSE <<"decode error">>]

\* the query strings Url::parse_with_params builds from extra_get_params
BaseQueries == {<<>>, <<<<"delete", "true">>>>}

\* a client built with the UUID middleware around the retry middleware
MiddlewareStack_uuid_first == <<"UuidMiddleware", "RetryTransientMiddleware">>

\* default_client_builder: the middlewares in the order of the with() calls,
\* the first one outermost
MiddlewareStack == <<"RetryTransientMiddleware", "UuidMiddleware">>

\* the middleware named runs once per attempt when it is inside the retry
\* middleware, once per request when it is outside
PerAttempt(name) ==
    \E i, j \in DOMAIN MiddlewareStack :
        /\ MiddlewareStack[i] = "RetryTransientMiddleware"
        /\ MiddlewareStack[j] = name
        /\ i < j

\* UuidMiddleware::handle: a clone of the request with three parameters
\* appended to its query; the two ids are new v4 UUIDs, here the next two
\* values never produced before
UuidHandle(req, client_start_time, made) ==
    [req EXCEPT !.query = @ \o <<<<"clientStartTime", client_start_time>>,
                                 <<"requestId", made + 1>>,
                                 <<"request_guid", made + 2>>>>]

\* SystemTime::now() in seconds at an attempt: not before the last reading
ClockReadings ==
    LET last == IF attempts = <<>> THEN 0
                ELSE attempts[Len(attempts)].query[Len(attempts[Len(attempts)].query) - 2][2]
    IN {last, last + 1}

\* Connection::request is called: the request is built and handed to the client
Dispatch ==
    /\ dstate = "idle"
    /\ dstate' = "sending"
    /\ \E q \in BaseQueries :
          IF PerAttempt("UuidMiddleware")
          THEN /\ dreq' = [query |-> q]
               /\ UNCHANGED uuids
          ELSE /\ dreq' = UuidHandle([query |-> q], 0, uuids)
               /\ uuids' = uuids + 2
    /\ UNCHANGED <<attempts, n_past_retries, result>>
    /\ UNCHANGED <<svars, xvars, fvars>>

\* one attempt, and what the retry middleware does with its outcome
Attempt ==
    /\ dstate = "sending"
    /\ \E ans \in Answers, t \in ClockReadings :
          /\ IF PerAttempt("UuidMiddleware")
             THEN /\ attempts' = Append(attempts, AttemptOf(UuidHandle(dreq, t, uuids), ans))
                  /\ uuids' = uuids + 2
             ELSE /\ attempts' = Append(attempts, AttemptOf(dreq, ans))
                  /\ UNCHANGED uuids
          /\ IF Retryable(ans) = "Transient" /\ should_retry(n_past_retries)
             THEN /\ n_past_retries' = n_past_retries + 1
                  /\ UNCHANGED <<dstate, result>>
             ELSE /\ UNCHANGED n_past_retries
                  /\ IF ans.err # ""
                     THEN /\ dstate' = "done"
                          /\ result' = [ret |-> "RequestMiddlewareError",
                                        status |-> 0, body |-> "",
                                        carries |-> <<"send error", ans.err>>]
                     ELSE /\ dstate' = "parsing"
                          /\ UNCHANGED result
    /\ UNCHANGED dreq
    /\ UNCHANGED <<svars, xvars, fvars>>

\* resp.json::<R>() reads the body of the response the client returned
JsonParse ==
    /\ dstate = "parsing"
    /\ \E body \in Bodies :
          result' = ParseResponse(attempts[Len(attempts)].status, body)
    /\ dstate' = "done"
    /\ UNCHANGED <<attempts, n_past_retries, dreq, uuids>>
    /\ UNCHANGED <<svars, xvars, fvars>>

NextDispatch ==
    \/ Dispatch
    \/ Attempt
    \/ JsonParse

SpecDispatch == Init /\ [][NextDispatch]_vars


(* ----------------------- claims: the dispatcher ------------------------ *)
StatusesOf(as) == [i \in DOMAIN as |-> as[i].status]
ClientError(ans) ==
    ans.err = "" /\ ans.status \in 400..499 /\ ans.status # 408 /\ ans.status # 429
RetriedOn(ans) ==
    \/ ans.err \in {"connect", "timeout"}
    \/ ans.err = "" /\ (ans.status \in 500..599 \/ ans.status \in {408, 429})

\* C9: a request is attempted at most 4 times (3 retries); answered 503, 503,
\* 503 and then 200 with a well-formed body it succeeds; answered 503 four
\* times it fails (the claim says with a transport error: stated here as
\* failing with any error at all).
C9_RetryBudget ==
    /\ Len(attempts) <= 4 /\ n_past_retries <= 3
    /\ (dstate = "done" /\ StatusesOf(attempts) = <<503, 503, 503, 200>>
            /\ result.body = "valid") => result.ret = "Ok"
    /\ (dstate = "done" /\ StatusesOf(attempts) = <<503, 503, 503, 503>>) =>
            result.ret # "Ok"

\* C10: a 4xx answer other than 408 and 429 is not retried: the request ends
\* after that one attempt and reports a failure; every attempt that was
\* followed by a retry met 408, 429, a 5xx or a connection error.
C10_NoRetryOnClientError ==
    /\ \A i \in DOMAIN attempts : ClientError(attempts[i]) =>
          /\ i = Len(attempts)
          /\ dstate # "sending"
          /\ dstate = "done" => result.ret # "Ok"
    /\ \A i \in DOMAIN attempts : i < Len(attempts) => RetriedOn(attempts[i])

\* C11: request() maps the response status to its outcome: 403 gives
\* InvalidAccountIdentifier, any other non-2xx status gives UnexpectedResponse
\* carrying the body text, and a non-2xx response is never returned as a
\* successfully parsed value.
C11_StatusMapping ==
    (dstate = "done" /\ result.status # 0 /\ result.status \notin 200..299) =>
        /\ result.ret # "Ok"
        /\ result.status = 403 => result.ret = "InvalidAccountIdentifier"
        /\ result.status # 403 =>
              /\ result.ret = "UnexpectedResponse"
              /\ result.carries = <<"text", result.body>>

\* C12: on a 2xx response request() returns the body parsed into the target
\* type; a body that does not parse gives an error that carries the raw body,
\* never a value.
C12_ParseOrRawBody ==
    (dstate = "done" /\ result.status \in 200..299) =>
        /\ result.body = "valid" =>
              result.ret = "Ok" /\ result.carries = <<"value", result.body>>
        /\ result.body # "valid" =>
              result.ret # "Ok" /\ result.carries = <<"text", result.body>>

\* the values a query string gives a parameter, in order
ParamValues(query, name) ==
    LET Named(kv) == kv[1] = name
    IN [i \in DOMAIN SelectSeq(query, Named) |-> SelectSeq(query, Named)[i][2]]

\* C24: every HTTP attempt carries clientStartTime, requestId and
\* request_guid, once each, and a retry carries a requestId and a
\* request_guid different from those of every earlier attempt.
C24_FreshIdsPerAttempt ==
    \A i \in DOMAIN attempts :
        /\ \A name \in {"clientStartTime", "requestId", "request_guid"} :
              Len(ParamValues(attempts[i].query, name)) = 1
        /\ \A j \in 1..(i - 1) :
              /\ ParamValues(attempts[i].query, "requestId")
                    # ParamValues(attempts[j].query, "requestId")
              /\ ParamValues(attempts[i].query, "request_guid")
                    # ParamValues(attempts[j].query, "request_guid")

C24_Witness ==
    /\ Len(attempts) = MaxRetries + 1
    /\ dreq.query # <<>>
    /\ ParamValues(attempts[1].query, "clientStartTime")
          = ParamValues(attempts[2].query, "clientStartTime")
    /\ ParamValues(attempts[1].query, "requestId")
          # ParamValues(attempts[2].query, "requestId")
    /\ ParamValues(attempts[MaxRetries + 1].query, "delete") = <<"true">>

(* ------------------------- lib.rs: exec() ------------------------------ *)
\* longest statement, in lexemes
MaxSqlLen == 5

\* A statement is a sequence of lexemes: the comment delimiters, a blank, a
\* line break, the words put and get in two spellings, and any other text.
Lexemes == {"/*", "*/", " ", "nl", "put", "PUT", "get", "GET", "x"}
Statements == UNION {[1..n -> Lexemes] : n \in 0..MaxSqlLen}

\* the (?i) flag: letter case is ignored
Lower(lx) == CASE lx = "PUT" -> "put" [] lx = "GET" -> "get" [] OTHER -> lx
\* \s
IsSpace(lx) == lx \in {" ", "nl"}
\* . (any character but a line break)
IsDot(lx) == lx # "nl"

\* the rest of put_re from position i on: (?:/\*.*\*/\s*)*put\s+
\* A regex match exists when some choice of the repetitions matches.
RECURSIVE MatchFrom(_, _)
MatchFrom(s, i) ==
    \/ /\ i + 1 <= Len(s)
       /\ Lower(s[i]) = "put"
       /\ IsSpace(s[i + 1])
    \/ /\ i <= Len(s)
       /\ s[i] = "/*"
       /\ \E j \in (i + 1)..Len(s) :
             /\ s[j] = "*/"
             /\ \A k \in (i + 1)..(j - 1) : IsDot(s[k])
             /\ \E m \in (j + 1)..Len(s) :
                   /\ \A k \in (j + 1)..(m - 1) : IsSpace(s[k])
                   /\ MatchFrom(s, m)

\* put_re.is_match(sql): the pattern is anchored at the start of the text
put_re_is_match(s) == MatchFrom(s, 1)

\* the branch exec() takes
RouteOf(s) == IF put_re_is_match(s) THEN "exec_put" ELSE "exec_arrow"

\* SnowflakeApi::exec, up to the call of exec_put or exec_arrow
Exec ==
    /\ route = "none"
    /\ route' = RouteOf(sql)
    /\ UNCHANGED <<sql, resp, xpc, fetched, completion, outcome, qreq>>
    /\ UNCHANGED <<svars, dvars, uvars, fvars>>

InitExec ==
    /\ SessionInit /\ DispatcherIdle /\ FunctionsIdle
    /\ sql \in Statements
    /\ route = "none"
    /\ FlowIdle /\ ApiSettings /\ UploadIdle

NextExec == Exec

SpecExec == InitExec /\ [][NextExec]_vars


(* --------------------------- claims: exec() ---------------------------- *)
\* where the text starts once the leading block comments (each running to
\* its closing delimiter, each optionally followed by whitespace) are skipped
RECURSIVE AfterSpaces(_, _)
AfterSpaces(s, i) ==
    IF i <= Len(s) /\ s[i] \in {" ", "nl"} THEN AfterSpaces(s, i + 1) ELSE i
RECURSIVE AfterComments(_, _)
AfterComments(s, i) ==
    IF i <= Len(s) /\ s[i] = "/*" /\ \E j \in (i + 1)..Len(s) : s[j] = "*/"
    THEN LET j == CHOOSE j \in (i + 1)..Len(s) :
                     s[j] = "*/" /\ \A k \in (i + 1)..(j - 1) : s[k] # "*/"
         IN AfterComments(s, AfterSpaces(s, j + 1))
    ELSE i
\* the statement starts with the keyword, in any letter case, then whitespace
StartsWith(s, words) ==
    LET i == AfterComments(s, 1)
    IN i + 1 <= Len(s) /\ s[i] \in words /\ s[i + 1] \in {" ", "nl"}

\* C13: exec() takes the upload flow exactly when the statement, after its
\* leading block comments, begins with PUT in any letter case followed by
\* whitespace.
C13_PutClassification ==
    route # "none" =>
        (route = "exec_put" <=> StartsWith(sql, {"put", "PUT"}))

\* C18: a statement that, after its leading block comments, begins with GET
\* followed by whitespace is routed to the download flow, not run as a query.
C18_GetRouted ==
    (route # "none" /\ StartsWith(sql, {"get", "GET"})) => route = "exec_get"

(* ----------------------- lib.rs: exec_arrow() -------------------------- *)
\* most chunks a response lists
MaxChunks == 3

\* Option<T>: None, Some(x), and unwrap_or_default on an Option<String>
NoneOpt == <<>>
Some(x) == <<x>>
unwrap_or_default(o) == IF o = NoneOpt THEN "" ELSE o[1]

\* the chunk lists a response can carry: urls, each listed once, in any order
Urls == 1..MaxChunks
ChunkLists ==
    {c \in UNION {[1..n -> Urls] : n \in 0..MaxChunks} :
        \A i, j \in DOMAIN c : i # j => c[i] # c[j]}

\* ExecResponse::Query: the fields of its data that exec_arrow reads.
\* rowset_base64 is empty, an IPC stream of one batch, text that is not
\* base64, or base64 of something that is not an IPC stream.
QueryResponses ==
    [variant : {"Query"}, returned : {0, 2},
     rowset : {NoneOpt, Some("rows")},
     rowset_base64 : {NoneOpt, Some(""), Some("ipc"), Some("not_base64"), Some("not_ipc")},
     chunks : ChunkLists]
\* ExecResponse::Error: the envelope's code and message, and data.error_code
ErrorResponses ==
    [variant : {"Error"}, code : {NoneOpt, Some("390100")},
     message : {NoneOpt, Some("bad sql")}, error_code : {"0042"}]
OtherResponses == [variant : {"PutGet", "AsyncQuery", "MultiStatementQuery"}]
\* run_sql returned Err: get_token or the request failed
FailedRunSql == [variant : {"failed"}, err : {"AuthError", "RequestError"}]
ExecResponses == QueryResponses \cup ErrorResponses \cup OtherResponses \cup FailedRunSql

ErrOutcome(err) == [NoOutcome EXCEPT !.kind = "Err", !.err = err]
EmptyOutcome == [NoOutcome EXCEPT !.kind = "Empty"]
JsonOutcome(json) == [NoOutcome EXCEPT !.kind = "Json", !.json = json]
ArrowOutcome(res) == [NoOutcome EXCEPT !.kind = "Arrow", !.batches = res]

\* an ApiError built from the envelope's code
ApiErrorOf_envelope_code(e) ==
    [NoOutcome EXCEPT !.kind = "Err", !.err = "ApiError",
                      !.code = unwrap_or_default(e.code),
                      !.message = unwrap_or_default(e.message)]

\* SnowflakeApiError::ApiError(e.data.error_code, e.message.unwrap_or_default())
ApiErrorOf(e) ==
    [NoOutcome EXCEPT !.kind = "Err", !.err = "ApiError",
                      !.code = e.error_code,
                      !.message = unwrap_or_default(e.message)]

\* the arm for the variants exec_arrow's match does not list
UnlistedVariantArm(r) == ErrOutcome("UnexpectedResponse")

\* exec_arrow's match on the response, for the variants it does not process
ExecArrowArm(r) ==
    CASE r.variant = "PutGet" -> ErrOutcome("UnexpectedResponse")
      [] r.variant = "Error" -> ApiErrorOf(r)
      [] OTHER -> UnlistedVariantArm(r)

\* a result chosen by what is present, before the row count is looked at
QueryResultKind_rowset_first(data) ==
    IF data.rowset # NoneOpt THEN "Json"
    ELSE IF data.returned = 0 THEN "Empty"
    ELSE IF data.rowset_base64 # NoneOpt THEN "Arrow"
    ELSE "BrokenResponse"

\* the if / else-if chain of exec_arrow
QueryResultKind(data) ==
    IF data.returned = 0 THEN "Empty"
    ELSE IF data.rowset # NoneOpt THEN "Json"
    ELSE IF data.rowset_base64 # NoneOpt THEN "Arrow"
    ELSE "BrokenResponse"

InlineBatch == [from |-> "inline", url |-> 0]
ChunkBatch(u) == [from |-> "chunk", url |-> u]
Pending(u) == [st |-> "pending", url |-> u, data |-> ""]

\* the chunk bodies in completion order
try_join_all_by_completion(fs, done_order) ==
    [k \in DOMAIN done_order |-> fs[done_order[k]]]

\* try_join_all: the outputs in the order of the futures it was given
try_join_all(fs, done_order) == [i \in DOMAIN fs |-> fs[i]]

\* a loop that leaves out a chunk it cannot read
RECURSIVE ReadChunks_skip_unreadable(_, _)
ReadChunks_skip_unreadable(res, bs) ==
    IF bs = <<>> THEN ArrowOutcome(res)
    ELSE IF Head(bs).data # "ipc" THEN ReadChunks_skip_unreadable(res, Tail(bs))
    ELSE ReadChunks_skip_unreadable(Append(res, ChunkBatch(Head(bs).url)), Tail(bs))

\* the loop over the fetched chunks: each is read as an IPC stream and its
\* batches pushed; a stream that cannot be read ends the call
RECURSIVE ReadChunks(_, _)
ReadChunks(res, bs) ==
    IF bs = <<>> THEN ArrowOutcome(res)
    ELSE IF Head(bs).data # "ipc" THEN ErrOutcome("ArrowError")
    ELSE ReadChunks(Append(res, ChunkBatch(Head(bs).url)), Tail(bs))

\* QueryType::query_context
query_context(query_type) ==
    CASE query_type = "LoginRequest" ->
            [query_type |-> query_type, path |-> "session/v1/login-request",
             accept_mime |-> "application/json"]
      [] query_type = "TokenRequest" ->
            [query_type |-> query_type, path |-> "/session/token-request",
             accept_mime |-> "application/snowflake"]
      [] query_type = "CloseSession" ->
            [query_type |-> query_type, path |-> "session",
             accept_mime |-> "application/snowflake"]
      [] query_type = "JsonQuery" ->
            [query_type |-> query_type, path |-> "queries/v1/query-request",
             accept_mime |-> "application/json"]
      [] query_type = "ArrowQuery" ->
            [query_type |-> query_type, path |-> "queries/v1/query-request",
             accept_mime |-> "application/snowflake"]

\* the query type exec_arrow and exec_put give run_sql
exec_arrow_query_type == "ArrowQuery"
exec_put_query_type == "JsonQuery"

\* the answers the server can give a PUT: a PutGet descriptor naming the
\* stage, or any other variant
\* stage_info.location values, as sequences of lexemes: a bucket followed by
\* a path of two segments, and a bare bucket
Locations == {<<"bucket", "/", "stage", "/", "dir", "/">>, <<"bucket">>}
PutGetResponses ==
    [variant : {"PutGet"}, stage : {"Aws", "Azure", "Gcs"},
     location : Locations]
PutResponses ==
    PutGetResponses \cup ErrorResponses \cup FailedRunSql
        \cup [variant : {"Query", "AsyncQuery", "MultiStatementQuery"}]

\* run_sql: the query goes out with the type the flow asked for and the
\* answer comes back
RunSql ==
    /\ xpc = "idle"
    /\ route # "none"
    /\ resp = NoResponse
    /\ qreq' = query_context(IF route = "exec_put" THEN exec_put_query_type
                             ELSE exec_arrow_query_type)
    /\ resp' \in (IF route = "exec_put" THEN PutResponses ELSE ExecResponses)
    /\ UNCHANGED <<sql, route, xpc, fetched, completion, outcome>>
    /\ UNCHANGED <<svars, dvars, uvars, fvars>>

\* exec_arrow from the return of run_sql to its first wait on the chunks, or
\* to its return when there is nothing to fetch
ExecArrow ==
    /\ xpc = "idle"
    /\ route = "exec_arrow"
    /\ resp # NoResponse
    /\ IF resp.variant = "failed"
       THEN /\ outcome' = ErrOutcome(resp.err)
            /\ xpc' = "done"
            /\ UNCHANGED fetched
       ELSE IF resp.variant # "Query"
       THEN /\ outcome' = ExecArrowArm(resp)
            /\ xpc' = "done"
            /\ UNCHANGED fetched
       ELSE IF QueryResultKind(resp) = "Empty"
       THEN /\ outcome' = EmptyOutcome
            /\ xpc' = "done"
            /\ UNCHANGED fetched
       ELSE IF QueryResultKind(resp) = "Json"
       THEN /\ outcome' = JsonOutcome(resp.rowset)
            /\ xpc' = "done"
            /\ UNCHANGED fetched
       ELSE IF QueryResultKind(resp) = "BrokenResponse"
       THEN /\ outcome' = ErrOutcome("BrokenResponse")
            /\ xpc' = "done"
            /\ UNCHANGED fetched
       ELSE LET base64 == resp.rowset_base64[1]
                res == IF base64 = "" THEN <<>> ELSE <<InlineBatch>>
            IN IF base64 = "not_base64"
               THEN /\ outcome' = ErrOutcome("ResponseDeserializationError")
                    /\ xpc' = "done"
                    /\ UNCHANGED fetched
               ELSE IF base64 = "not_ipc"
               THEN /\ outcome' = ErrOutcome("ArrowError")
                    /\ xpc' = "done"
                    /\ UNCHANGED fetched
               ELSE IF resp.chunks = <<>>
               THEN /\ outcome' = ArrowOutcome(res)
                    /\ xpc' = "done"
                    /\ UNCHANGED fetched
               ELSE /\ outcome' = [NoOutcome EXCEPT !.batches = res]
                    /\ xpc' = "fetching"
                    /\ fetched' = [i \in DOMAIN resp.chunks |-> Pending(resp.chunks[i])]
    /\ UNCHANGED <<sql, route, resp, completion, qreq>>
    /\ UNCHANGED <<svars, dvars, uvars, fvars>>

\* the get_chunk future of the i-th listed chunk completes with a body
ChunkDone(i) ==
    /\ xpc = "fetching"
    /\ i \in DOMAIN fetched
    /\ fetched[i].st = "pending"
    /\ \E data \in {"ipc", "not_ipc"} :
          fetched' = [fetched EXCEPT ![i].st = "done", ![i].data = data]
    /\ completion' = Append(completion, i)
    /\ UNCHANGED <<sql, route, resp, xpc, outcome, qreq>>
    /\ UNCHANGED <<svars, dvars, uvars, fvars>>

\* the get_chunk future of the i-th listed chunk fails: try_join_all returns
\* the error and the `?` ends exec_arrow
ChunkFail(i) ==
    /\ xpc = "fetching"
    /\ i \in DOMAIN fetched
    /\ fetched[i].st = "pending"
    /\ fetched' = [fetched EXCEPT ![i].st = "failed"]
    /\ completion' = Append(completion, i)
    /\ outcome' = ErrOutcome("RequestError")
    /\ xpc' = "done"
    /\ UNCHANGED <<sql, route, resp, qreq>>
    /\ UNCHANGED <<svars, dvars, uvars, fvars>>

\* every fetch has completed: try_join_all returns and the chunks are read
JoinChunks ==
    /\ xpc = "fetching"
    /\ \A i \in DOMAIN fetched : fetched[i].st = "done"
    /\ outcome' = ReadChunks(outcome.batches, try_join_all(fetched, completion))
    /\ xpc' = "done"
    /\ UNCHANGED <<sql, route, resp, fetched, completion, qreq>>
    /\ UNCHANGED <<svars, dvars, uvars, fvars>>

\* exec() has sent a statement that is not a PUT to exec_arrow
InitArrow ==
    /\ SessionInit /\ DispatcherIdle /\ FunctionsIdle
    /\ sql = <<"x">>
    /\ route = RouteOf(sql)
    /\ FlowIdle /\ ApiSettings /\ UploadIdle

NextArrow ==
    \/ RunSql
    \/ ExecArrow
    \/ \E i \in 1..MaxChunks : ChunkDone(i)
    \/ \E i \in 1..MaxChunks : ChunkFail(i)
    \/ JoinChunks

SpecArrow == InitArrow /\ [][NextArrow]_vars


(* ------------------------ claims: exec_arrow() ------------------------- *)
IsQueryResponse == resp.variant = "Query"
Returned == xpc = "done"

\* C14: for a Query response the result is chosen in this precedence:
\* returned = 0 gives Empty, even with a rowset present; otherwise a JSON
\* rowset gives Json(rowset); otherwise a rowset_base64 gives Arrow batches
\* (or the error of a payload or chunk that could not be read or fetched);
\* otherwise BrokenResponse.
C14_ResultPrecedence ==
    (Returned /\ IsQueryResponse) =>
        IF resp.returned = 0 THEN outcome.kind = "Empty"
        ELSE IF resp.rowset # <<>>
        THEN outcome.kind = "Json" /\ outcome.json = resp.rowset
        ELSE IF resp.rowset_base64 # <<>>
        THEN \/ outcome.kind = "Arrow"
             \/ /\ outcome.kind = "Err"
                /\ \/ outcome.err = "ResponseDeserializationError"
                         /\ resp.rowset_base64 = <<"not_base64">>
                   \/ outcome.err = "ArrowError"
                         /\ (resp.rowset_base64 = <<"not_ipc">>
                             \/ \E i \in DOMAIN fetched : fetched[i].data = "not_ipc")
                   \/ outcome.err = "RequestError"
                         /\ \E i \in DOMAIN fetched : fetched[i].st = "failed"
        ELSE outcome.kind = "Err" /\ outcome.err = "BrokenResponse"

C14_Witness ==
    /\ Returned /\ IsQueryResponse
    /\ resp.returned = 0
    /\ resp.rowset # <<>> /\ resp.rowset_base64 = <<"ipc">>
    /\ outcome.kind = "Empty"

\* the batches of a chunked result, inline first, then chunk by chunk in the
\* order the response listed them
ExpectedBatches ==
    (IF resp.rowset_base64 = <<"ipc">> THEN <<[from |-> "inline", url |-> 0]>> ELSE <<>>)
        \o [i \in DOMAIN resp.chunks |-> [from |-> "chunk", url |-> resp.chunks[i]]]

\* C15: for a chunked tabular result the returned batches are the inline
\* batches followed by the batches of each chunk in the order the server
\* listed the chunks, whatever the order in which the fetches completed.
C15_ChunkOrder ==
    (Returned /\ IsQueryResponse /\ outcome.kind = "Arrow") =>
        outcome.batches = ExpectedBatches

C15_Witness ==
    /\ Returned /\ IsQueryResponse /\ outcome.kind = "Arrow"
    /\ resp.rowset_base64 = <<"ipc">>
    /\ Len(resp.chunks) = MaxChunks
    /\ resp.chunks[1] > resp.chunks[2]
    /\ completion[1] = MaxChunks
    /\ Len(outcome.batches) = MaxChunks + 1

\* the errors the chunks of the result have met: a fetch that failed, a body
\* that is not an Arrow stream
ChunkErrors ==
    {"RequestError" : i \in {j \in DOMAIN fetched : fetched[j].st = "failed"}}
        \cup {"ArrowError" : i \in {j \in DOMAIN fetched :
                                       fetched[j].st = "done" /\ fetched[j].data # "ipc"}}

\* C36: when the fetch or the decoding of a chunk has failed, exec() returns
\* an error, the error of a chunk, and never an Arrow result; an Arrow
\* result holds the batches of every chunk the response listed.
C36_NoPartialResult ==
    (Returned /\ IsQueryResponse) =>
        /\ ChunkErrors # {} => outcome.kind = "Err" /\ outcome.err \in ChunkErrors
        /\ outcome.kind = "Arrow" =>
              \A i \in DOMAIN resp.chunks :
                  \E k \in DOMAIN outcome.batches :
                      outcome.batches[k] = ChunkBatch(resp.chunks[i])

C36_Witness ==
    /\ Returned /\ IsQueryResponse
    /\ Len(resp.chunks) = MaxChunks /\ Len(fetched) = MaxChunks
    /\ fetched[1].st = "done" /\ fetched[1].data = "ipc"
    /\ fetched[2].st = "done" /\ fetched[2].data = "not_ipc"
    /\ fetched[MaxChunks].st = "done" /\ fetched[MaxChunks].data = "ipc"
    /\ outcome.kind = "Err" /\ outcome.err = "ArrowError"
    /\ outcome.batches = <<>>

\* C16: on the regular query path an Error response gives ApiError with the
\* server's error code and message, and a PutGet, AsyncQuery or
\* MultiStatementQuery response gives UnexpectedResponse; neither returns a
\* QueryResult.
C16_ErrorAndUnexpected ==
    Returned =>
        /\ resp.variant = "Error" =>
              /\ outcome.kind = "Err" /\ outcome.err = "ApiError"
              /\ outcome.code = resp.error_code
              /\ outcome.message = (IF resp.message = <<>> THEN "" ELSE resp.message[1])
        /\ resp.variant \in {"PutGet", "AsyncQuery", "MultiStatementQuery"} =>
              outcome.kind = "Err" /\ outcome.err = "UnexpectedResponse"

C16_Witness ==
    /\ Returned
    /\ resp.variant = "Error"
    /\ resp.code = <<"390100">> /\ resp.message = <<"bad sql">>
    /\ outcome.err = "ApiError"
    /\ outcome.code = "0042" /\ outcome.message = "bad sql"

(* --------------- lib.rs: exec_put(); upload_files.rs ------------------- *)
\* most local files a PUT matches
MaxFiles == 6
\* most uploads that fail in one PUT
MaxUploadFaults == 2

\* a local file: its name and the size fs::metadata reports
LocalFile(name, size) == [name |-> name, size |-> size]
FileLists(sizes) ==
    UNION {{[i \in 1..n |-> LocalFile(i, sz[i])] : sz \in [1..n -> sizes]} :
              n \in 0..MaxFiles}

\* UploadFiles::new: u64::try_from(threshold).unwrap_or(0)
UploadFilesNew(threshold) ==
    [small_files |-> <<>>, large_files |-> <<>>,
     threshold |-> IF threshold < 0 THEN 0 ELSE threshold]

\* UploadFiles::push_file
push_file(uf, file) ==
    IF file.size > uf.threshold
    THEN [uf EXCEPT !.large_files = Append(@, file)]
    ELSE [uf EXCEPT !.small_files = Append(@, file)]

RECURSIVE PushFiles(_, _)
PushFiles(uf, fs) ==
    IF fs = <<>> THEN uf ELSE PushFiles(push_file(uf, Head(fs)), Tail(fs))

\* get_files, given the files the globs matched
get_files(fs, threshold) == PushFiles(UploadFilesNew(threshold), fs)

\* the places of a delimiter in a string
Positions(str, delimiter) == {i \in DOMAIN str : str[i] = delimiter}
Min(S) == CHOOSE i \in S : \A j \in S : i <= j
Max(S) == CHOOSE i \in S : \A j \in S : i >= j

\* a split at the last delimiter
split_once_last(str, delimiter) ==
    IF Positions(str, delimiter) = {} THEN NoneOpt
    ELSE LET i == Max(Positions(str, delimiter))
         IN Some(<<SubSeq(str, 1, i - 1), SubSeq(str, i + 1, Len(str))>>)

\* str::split_once: the parts before and after the first delimiter
split_once(str, delimiter) ==
    IF Positions(str, delimiter) = {} THEN NoneOpt
    ELSE LET i == Min(Positions(str, delimiter))
         IN Some(<<SubSeq(str, 1, i - 1), SubSeq(str, i + 1, Len(str))>>)

\* put_to_s3's (bucket_name, bucket_path)
bucket_name(location) == split_once(location, "/")[1][1]
bucket_path(location) == split_once(location, "/")[1][2]

\* FileUpload::from_source: dest_path is bucket_path followed by the file name
dest_path(path, file) == <<path, file.name>>

\* s3.put(&dest_path, ..) on the store built with_bucket_name(bucket_name)
PutObject(location, file) ==
    [bucket |-> bucket_name(location), dest |-> dest_path(bucket_path(location), file)]

\* a join_next that hands out the task that completed last
join_next_newest(q) == q[Len(q)]

\* JoinSet::join_next: the task that completed first
join_next(q) == Head(q)

\* an io or object_store error raised while a file was uploaded
UploadError(file) == [ErrOutcome("ObjectStoreError") EXCEPT !.cause = file.name]

\* a put() that takes a GCS stage for an S3 one
StageDispatch_gcs_as_s3(stage) ==
    IF stage \in {"Aws", "Gcs"} THEN "put_to_s3" ELSE "Unimplemented"

\* SnowflakeApi::put: the match on the stage kind
StageDispatch(stage) ==
    CASE stage = "Aws" -> "put_to_s3"
      [] stage = "Azure" -> "Unimplemented"
      [] stage = "Gcs" -> "Unimplemented"

\* exec_put's match on the response, for the variants that are not PutGet
ExecPutArm(r) ==
    CASE r.variant = "Query" -> ErrOutcome("UnexpectedResponse")
      [] r.variant = "Error" -> ApiErrorOf(r)
      [] OTHER -> UnlistedVariantArm(r)

\* exec_put from the return of run_sql, through put and put_to_s3, up to the
\* first wait of upload_files_parallel
ExecPut ==
    /\ xpc = "idle"
    /\ route = "exec_put"
    /\ resp # NoResponse
    /\ IF resp.variant = "failed"
       THEN /\ outcome' = ErrOutcome(resp.err)
            /\ xpc' = "done"
            /\ UNCHANGED <<files, permits, set>>
       ELSE IF resp.variant # "PutGet"
       THEN /\ outcome' = ExecPutArm(resp)
            /\ xpc' = "done"
            /\ UNCHANGED <<files, permits, set>>
       ELSE IF StageDispatch(resp.stage) = "Unimplemented"
       THEN /\ outcome' = ErrOutcome("Unimplemented")
            /\ xpc' = "done"
            /\ UNCHANGED <<files, permits, set>>
       ELSE IF split_once(resp.location, "/") = NoneOpt
       THEN /\ outcome' = ErrOutcome("InvalidBucketPath")
            /\ xpc' = "done"
            /\ UNCHANGED <<files, permits, set>>
       ELSE /\ files' = get_files(src_files, max_file_size_threshold)
            /\ permits' = max_parallel_uploads
            /\ set' = [k \in DOMAIN files'.small_files |-> "unspawned"]
            /\ xpc' = "parallel"
            /\ UNCHANGED outcome
    /\ UNCHANGED <<max_parallel_uploads, max_file_size_threshold, src_files, spawned,
                   joinq, large_inflight, large_done, store, failures>>
    /\ UNCHANGED <<sql, route, resp, fetched, completion, qreq>>
    /\ UNCHANGED <<svars, dvars, fvars>>

\* a semaphore that never makes the loop wait
PermitAvailable_always(p) == TRUE

\* semaphore.acquire_owned() returns when a permit is left
PermitAvailable(p) == p > 0

\* upload_files_parallel, one turn of its for loop: a permit is acquired and
\* the task of the next small file is spawned
Spawn ==
    /\ xpc = "parallel"
    /\ spawned < Len(files.small_files)
    /\ PermitAvailable(permits)
    /\ permits' = permits - 1
    /\ spawned' = spawned + 1
    /\ set' = [set EXCEPT ![spawned + 1] = "running"]
    /\ UNCHANGED <<max_parallel_uploads, max_file_size_threshold, src_files, files,
                   joinq, large_inflight, large_done, store, failures>>
    /\ UNCHANGED avars
    /\ UNCHANGED <<svars, dvars, fvars>>


\* a spawned task runs to its end: the file is read and put, or one of the
\* two fails; either way its permit goes back to the semaphore
TaskFinish(k) ==
    /\ xpc = "parallel"
    /\ k \in DOMAIN set
    /\ set[k] = "running"
    /\ \E ok \in BOOLEAN :
          /\ ~ok => Len(failures) < MaxUploadFaults
          /\ set' = [set EXCEPT ![k] = IF ok THEN "ok" ELSE "failed"]
          /\ store' = IF ok
                      THEN Append(store, PutObject(resp.location, files.small_files[k]))
                      ELSE store
          /\ failures' = IF ok THEN failures
                         ELSE Append(failures, files.small_files[k].name)
    /\ permits' = permits + 1
    /\ joinq' = Append(joinq, k)
    /\ UNCHANGED <<max_parallel_uploads, max_file_size_threshold, src_files, files,
                   spawned, large_inflight, large_done>>
    /\ UNCHANGED avars
    /\ UNCHANGED <<svars, dvars, fvars>>

\* upload_files_parallel, one turn of its while loop, entered once every task
\* is spawned: join_next gives the task that completed first; an error ends
\* the call, and dropping the JoinSet aborts the tasks still running
JoinNext ==
    /\ xpc = "parallel"
    /\ spawned = Len(files.small_files)
    /\ joinq # <<>>
    /\ LET k == join_next(joinq)
           Others(j) == j # k
       IN IF set[k] = "ok"
          THEN /\ set' = [set EXCEPT ![k] = "joined"]
               /\ joinq' = SelectSeq(joinq, Others)
               /\ UNCHANGED <<xpc, outcome, permits>>
          ELSE /\ set' = [j \in DOMAIN set |->
                             IF set[j] = "running" THEN "aborted" ELSE set[j]]
               /\ joinq' = SelectSeq(joinq, Others)
               /\ permits' = permits + Cardinality({j \in DOMAIN set : set[j] = "running"})
               /\ outcome' = UploadError(files.small_files[k])
               /\ xpc' = "done"
    /\ UNCHANGED <<max_parallel_uploads, max_file_size_threshold, src_files, files,
                   spawned, large_inflight, large_done, store, failures>>
    /\ UNCHANGED <<sql, route, resp, fetched, completion, qreq>>
    /\ UNCHANGED <<svars, dvars, fvars>>

\* join_next gives None: upload_files_parallel returns Ok and put_to_s3 goes
\* on to upload_files_sequential
ParallelDone ==
    /\ xpc = "parallel"
    /\ spawned = Len(files.small_files)
    /\ \A k \in DOMAIN set : set[k] = "joined"
    /\ xpc' = "sequential"
    /\ UNCHANGED uvars
    /\ UNCHANGED <<sql, route, resp, fetched, completion, outcome, qreq>>
    /\ UNCHANGED <<svars, dvars, fvars>>

\* upload_files_sequential, one turn of its for loop begins: the loop body
\* awaits each transfer before the next turn
LargeStart ==
    /\ xpc = "sequential"
    /\ large_inflight = {}
    /\ large_done < Len(files.large_files)
    /\ large_inflight' = large_inflight \cup {large_done + 1}
    /\ UNCHANGED <<max_parallel_uploads, max_file_size_threshold, src_files, files,
                   permits, spawned, set, joinq, large_done, store, failures>>
    /\ UNCHANGED avars
    /\ UNCHANGED <<svars, dvars, fvars>>

\* the transfer of a large file ends
LargeFinish(i) ==
    /\ xpc = "sequential"
    /\ i \in large_inflight
    /\ large_inflight' = large_inflight \ {i}
    /\ \E ok \in BOOLEAN :
          IF ok
          THEN /\ store' = Append(store, PutObject(resp.location, files.large_files[i]))
               /\ large_done' = large_done + 1
               /\ UNCHANGED <<xpc, outcome, failures>>
          ELSE /\ Len(failures) < MaxUploadFaults
               /\ failures' = Append(failures, files.large_files[i].name)
               /\ outcome' = UploadError(files.large_files[i])
               /\ xpc' = "done"
               /\ UNCHANGED <<store, large_done>>
    /\ UNCHANGED <<max_parallel_uploads, max_file_size_threshold, src_files, files,
                   permits, spawned, set, joinq>>
    /\ UNCHANGED <<sql, route, resp, fetched, completion, qreq>>
    /\ UNCHANGED <<svars, dvars, fvars>>

\* upload_files_sequential returns Ok, and so do put_to_s3, put and exec_put;
\* exec maps the unit to QueryResult::Empty
PutDone ==
    /\ xpc = "sequential"
    /\ large_inflight = {}
    /\ large_done = Len(files.large_files)
    /\ outcome' = EmptyOutcome
    /\ xpc' = "done"
    /\ UNCHANGED uvars
    /\ UNCHANGED <<sql, route, resp, fetched, completion, qreq>>
    /\ UNCHANGED <<svars, dvars, fvars>>

\* exec() has sent a PUT statement to exec_put; the local files are at or
\* just above the size threshold
InitPut ==
    /\ SessionInit /\ DispatcherIdle /\ FunctionsIdle
    /\ sql = <<"put", " ", "x">>
    /\ route = RouteOf(sql)
    /\ FlowIdle /\ ApiSettings
    /\ src_files \in FileLists({max_file_size_threshold, max_file_size_threshold + 1})
    /\ files = NoFiles
    /\ permits = 0
    /\ spawned = 0
    /\ set = <<>>
    /\ joinq = <<>>
    /\ large_inflight = {}
    /\ large_done = 0
    /\ store = <<>>
    /\ failures = <<>>

NextPut ==
    \/ RunSql
    \/ ExecPut
    \/ Spawn
    \/ \E k \in 1..MaxFiles : TaskFinish(k)
    \/ JoinNext
    \/ ParallelDone
    \/ LargeStart
    \/ \E i \in 1..MaxFiles : LargeFinish(i)
    \/ PutDone

SpecPut == InitPut /\ [][NextPut]_vars

\* the PUT again, with a setting the caller chose and a short list of files
\* largest max_parallel_uploads the caller sets
MaxParallel == 2
\* most local files of the PUT
MaxParallelFiles == 3

\* SnowflakeApi::set_max_parallel_uploads: any usize is stored as given
SetMaxParallelUploads ==
    /\ xpc = "idle"
    /\ resp = NoResponse
    /\ \E n \in 0..MaxParallel : max_parallel_uploads' = n
    /\ UNCHANGED <<max_file_size_threshold, src_files, files, permits, spawned, set,
                   joinq, large_inflight, large_done, store, failures>>
    /\ UNCHANGED avars
    /\ UNCHANGED <<svars, dvars, fvars>>

InitParallel ==
    /\ InitPut
    /\ Len(src_files) <= MaxParallelFiles

NextParallel ==
    \/ SetMaxParallelUploads
    \/ NextPut

\* the runtime runs every task that can run: the loop takes a permit that is
\* there, a started transfer ends, a finished task is joined
UploadFairness ==
    /\ WF_vars(Spawn)
    /\ \A k \in 1..MaxFiles : WF_vars(TaskFinish(k))
    /\ WF_vars(JoinNext)
    /\ WF_vars(ParallelDone)

SpecParallel == InitParallel /\ [][NextParallel]_vars /\ UploadFairness

\* get_files on its own: any list of files of a few sizes, any threshold
\* around them, negative ones included
BucketSizes == 0..2
BucketThresholds == -1..1

GetFiles ==
    /\ xpc = "idle"
    /\ files' = get_files(src_files, max_file_size_threshold)
    /\ xpc' = "done"
    /\ UNCHANGED <<max_parallel_uploads, max_file_size_threshold, src_files, permits,
                   spawned, set, joinq, large_inflight, large_done, store, failures>>
    /\ UNCHANGED <<sql, route, resp, fetched, completion, outcome, qreq>>
    /\ UNCHANGED <<svars, dvars, fvars>>

InitBucket ==
    /\ SessionInit /\ DispatcherIdle /\ FunctionsIdle
    /\ ClassifyIdle /\ FlowIdle
    /\ max_parallel_uploads = 4
    /\ max_file_size_threshold \in BucketThresholds
    /\ src_files \in FileLists(BucketSizes)
    /\ files = NoFiles
    /\ permits = 0
    /\ spawned = 0
    /\ set = <<>>
    /\ joinq = <<>>
    /\ large_inflight = {}
    /\ large_done = 0
    /\ store = <<>>
    /\ failures = <<>>

NextBucket == GetFiles

SpecBucket == InitBucket /\ [][NextBucket]_vars


(* ------------------------- claims: the PUT flow ------------------------ *)
IsSmallTask(st) == st = "running"
InFlightSmall == {k \in DOMAIN set : IsSmallTask(set[k])}
PutEntered == route = "exec_put" /\ xpc # "idle"
UploadStarted == xpc \in {"parallel", "sequential"} \/ files # NoFiles

\* C17: a PUT statement goes to the JSON query endpoint and its response must
\* be a PutGet descriptor: an Aws stage starts the S3 upload, an Azure or Gcs
\* stage fails with Unimplemented and no file is uploaded, a Query response
\* fails with UnexpectedResponse and an Error response with ApiError.
C17_PutDispatch ==
    /\ (route = "exec_put" /\ qreq.query_type # "none") =>
          /\ qreq.query_type = "JsonQuery"
          /\ qreq.path = "queries/v1/query-request"
          /\ qreq.accept_mime = "application/json"
    /\ PutEntered =>
          /\ qreq.query_type # "none"
          /\ (resp.variant = "PutGet" /\ resp.stage = "Aws"
                  /\ split_once(resp.location, "/") # NoneOpt) =>
                /\ UploadStarted
                /\ outcome.err \notin {"Unimplemented", "UnexpectedResponse", "ApiError"}
          /\ (resp.variant = "PutGet" /\ resp.stage \in {"Azure", "Gcs"}) =>
                /\ outcome.kind = "Err" /\ outcome.err = "Unimplemented"
                /\ ~UploadStarted /\ spawned = 0 /\ store = <<>>
          /\ resp.variant = "Query" =>
                /\ outcome.kind = "Err" /\ outcome.err = "UnexpectedResponse"
                /\ store = <<>>
          /\ resp.variant = "Error" =>
                /\ outcome.kind = "Err" /\ outcome.err = "ApiError"
                /\ outcome.code = resp.error_code
                /\ store = <<>>

C17_Witness ==
    /\ PutEntered /\ xpc = "done"
    /\ qreq.query_type = "JsonQuery"
    /\ resp.variant = "PutGet" /\ resp.stage = "Aws"
    /\ outcome.kind = "Empty"
    /\ Len(store) = MaxFiles

\* the files of a list with a given property, in list order
NamesWhere(fs, P(_)) ==
    LET Pick(f) == P(f) IN [i \in DOMAIN SelectSeq(fs, Pick) |-> SelectSeq(fs, Pick)[i].name]
NamesOf(fs) == [i \in DOMAIN fs |-> fs[i].name]

\* C19: with threshold t, small_files is exactly the files of size <= t and
\* large_files exactly the files of size > t, each file in one of the two;
\* with a negative t every file, whatever its size, is in large_files.
C19_Bucketing ==
    xpc = "done" =>
        LET t == max_file_size_threshold
            AtMost(f) == f.size <= t
            Above(f) == f.size > t
        IN /\ NamesOf(files.small_files) = NamesWhere(src_files, AtMost)
           /\ NamesOf(files.large_files) = NamesWhere(src_files, Above)
           /\ t < 0 => /\ files.small_files = <<>>
                       /\ NamesOf(files.large_files) = NamesOf(src_files)

\* C20: during a PUT at most one large file is in transfer at any moment, and
\* the number of small-file uploads in flight never exceeds the concurrency
\* limit max_parallel_uploads, which is 4 by default.
C20_UploadConcurrency ==
    /\ max_parallel_uploads = 4
    /\ Cardinality(large_inflight) <= 1
    /\ Cardinality(InFlightSmall) <= max_parallel_uploads

C20_Witness ==
    /\ xpc = "parallel"
    /\ Cardinality(InFlightSmall) = max_parallel_uploads
    /\ spawned < Len(files.small_files)
    /\ Len(files.large_files) > 0

\* the PUT got as far as put_to_s3 on an S3 stage
S3Put == PutEntered /\ resp.variant = "PutGet" /\ resp.stage = "Aws"
SmallNames == {files.small_files[k].name : k \in DOMAIN files.small_files}
LargeNames == {files.large_files[k].name : k \in DOMAIN files.large_files}

\* C21: when the upload of a file fails the PUT is aborted: exec() returns an
\* error, the error is that of the failure that occurred first, and after a
\* failure among the small files no large file is ever transferred.
C21_AbortOnFailure ==
    /\ (S3Put /\ xpc = "done" /\ failures # <<>>) =>
          /\ outcome.kind = "Err" /\ outcome.err = "ObjectStoreError"
          /\ outcome.cause = failures[1]
    /\ (S3Put /\ failures # <<>> /\ failures[1] \in SmallNames) =>
          /\ xpc # "sequential"
          /\ large_inflight = {} /\ large_done = 0
          /\ \A i \in DOMAIN store : store[i].dest[2] \notin LargeNames

C21_Witness ==
    /\ S3Put /\ xpc = "done"
    /\ Len(failures) = 2
    /\ failures[1] > failures[2]
    /\ outcome.cause = failures[1]
    /\ Len(files.large_files) > 0
    /\ store # <<>>

\* C22: stage_info.location is split at its first '/' into bucket_name and
\* bucket_path; a location without '/' fails the PUT with InvalidBucketPath
\* before any local file is read or uploaded.
C22_BucketSplit ==
    S3Put =>
        IF Positions(resp.location, "/") = {}
        THEN /\ outcome.kind = "Err" /\ outcome.err = "InvalidBucketPath"
             /\ files = NoFiles /\ spawned = 0 /\ large_inflight = {}
             /\ store = <<>>
        ELSE \A i \in DOMAIN store :
                /\ Positions(store[i].bucket, "/") = {}
                /\ store[i].bucket \o <<"/">> \o store[i].dest[1] = resp.location

C22_Witness ==
    /\ S3Put /\ xpc = "done"
    /\ Cardinality(Positions(resp.location, "/")) > 1
    /\ Len(store) = Len(src_files) /\ store # <<>>
    /\ store[1].bucket = <<"bucket">>
    /\ store[1].dest[1] = <<"stage", "/", "dir", "/">>

\* C34: whatever value set_max_parallel_uploads was given and whatever the
\* list of small files, upload_files_parallel, once entered, returns, every
\* started transfer coming to an end.
C34_ParallelTerminates == (xpc = "parallel") ~> (xpc # "parallel")

\* C35: once the upload of one file has failed, upload_files_parallel starts
\* no further upload.
C35_NoStartAfterFailure == [][failures # <<>> => spawned' = spawned]_vars

(* -------------------- responses.rs: ExecResponse ----------------------- *)
\* The data object of a body is the set of its well-typed fields; serde
\* ignores the fields a struct does not name, and a struct matches when the
\* fields it requires are present. Fields of type Option or marked
\* serde(default) are not required.
PutGetRequired ==
    {"command", "parallel", "threshold", "autoCompress", "overwrite",
     "sourceCompression", "stageInfo", "encryptionMaterial"}
PutGetOptional == {"src_locations"}
AsyncQueryRequired == {"queryId", "getResultUrl", "queryAbortsAfterSecs"}
MultiStatementQueryRequired == {"queryId", "resultIds", "resultTypes"}
QueryRequired ==
    {"parameters", "rowtype", "total", "returned", "queryId", "finalRoleName",
     "statementTypeId", "version"}
ErrorRequired == {"age", "errorCode", "internalError", "queryId", "sqlState"}

Required(variant) ==
    CASE variant = "PutGet" -> PutGetRequired
      [] variant = "AsyncQuery" -> AsyncQueryRequired
      [] variant = "MultiStatementQuery" -> MultiStatementQueryRequired
      [] variant = "Query" -> QueryRequired
      [] variant = "Error" -> ErrorRequired

\* a declaration that tries the tabular shape first
ExecResponseVariants_query_first ==
    <<"Query", "PutGet", "AsyncQuery", "MultiStatementQuery", "Error">>

\* the variants of ExecResponse in the order the enum declares them
ExecResponseVariants ==
    <<"PutGet", "AsyncQuery", "MultiStatementQuery", "Query", "Error">>

\* serde(untagged): the first variant, in declaration order, that the body
\* deserializes as; an error when there is none
DecodeUntagged(variants, fields) ==
    LET matching == {i \in DOMAIN variants : Required(variants[i]) \subseteq fields}
    IN IF matching = {} THEN "DecodeError" ELSE variants[Min(matching)]

\* fields a server may leave out of a shape
Droppable == {"command", "queryId", "rowtype", "returned", "errorCode", "resultIds"}
FieldGroups ==
    {PutGetRequired, PutGetOptional, AsyncQueryRequired, MultiStatementQueryRequired,
     QueryRequired, ErrorRequired}
\* the bodies decoded: the fields of any shapes put together, less any one
\* or two of a few fields
ResponseBodies ==
    {(UNION gs) \ drop : gs \in SUBSET FieldGroups,
                         drop \in {d \in SUBSET Droppable : Cardinality(d) <= 2}}

\* resp.json::<ExecResponse>() on a body
Decode ==
    /\ decoded = "none"
    /\ decoded' = DecodeUntagged(ExecResponseVariants, data_fields)
    /\ UNCHANGED data_fields
    /\ UNCHANGED <<svars, dvars, xvars, jvars, tvars, mvars>>

InitDecode ==
    /\ SessionInit /\ DispatcherIdle /\ ExecIdle /\ JwtIdle /\ TokenIdle /\ MigrationIdle
    /\ data_fields \in ResponseBodies
    /\ decoded = "none"

NextDecode == Decode

SpecDecode == InitDecode /\ [][NextDecode]_vars


(* ---------------------- claims: response decoding ---------------------- *)
Matches(variant) == Required(variant) \subseteq data_fields

\* C23: an execution response is decoded as the first of PutGet, AsyncQuery,
\* MultiStatementQuery, Query, Error that matches it; a body with
\* src_locations and rowtype that can be read both as PutGet and as Query is
\* decoded as PutGet.
C23_DecodeOrder ==
    decoded # "none" =>
        /\ Matches("PutGet") => decoded = "PutGet"
        /\ (Matches("AsyncQuery") /\ ~Matches("PutGet")) => decoded = "AsyncQuery"
        /\ (Matches("MultiStatementQuery") /\ ~Matches("PutGet")
                /\ ~Matches("AsyncQuery")) => decoded = "MultiStatementQuery"
        /\ (Matches("Query") /\ ~Matches("PutGet") /\ ~Matches("AsyncQuery")
                /\ ~Matches("MultiStatementQuery")) => decoded = "Query"
        /\ decoded = "Error" =>
              /\ Matches("Error")
              /\ \A v \in {"PutGet", "AsyncQuery", "MultiStatementQuery", "Query"} :
                    ~Matches(v)
        /\ ({"src_locations", "rowtype"} \subseteq data_fields /\ Matches("PutGet")
                /\ Matches("Query")) => decoded = "PutGet"

C23_Witness ==
    /\ {"src_locations", "rowtype"} \subseteq data_fields
    /\ Matches("PutGet") /\ Matches("Query")
    /\ ~Matches("AsyncQuery")
    /\ decoded = "PutGet"

(* ------------------- jwt/src/lib.rs: the JWT issuer --------------------- *)
\* An OffsetDateTime is a number of milliseconds since the Unix epoch, UTC.
\* Its calendar date is the number of whole days, its time of day the rest.
date(t) == t \div 86400000
hour(t) == (t % 86400000) \div 3600000
minute(t) == (t % 3600000) \div 60000
second(t) == (t % 60000) \div 1000
\* Date::with_hms_milli(..).assume_utc()
with_hms_milli(d, h, m, sec, milli) ==
    d * 86400000 + h * 3600000 + m * 60000 + sec * 1000 + milli
\* time::Duration::days
days(n) == n * 86400000

\* Claims::new: both timestamps lose their sub-second part
ClaimsNew(iss, sub, iat, exp) ==
    [iss |-> iss, sub |-> sub,
     iat |-> with_hms_milli(date(iat), hour(iat), minute(iat), second(iat), 0),
     exp |-> with_hms_milli(date(exp), hour(exp), minute(exp), second(exp), 0)]

\* a serializer that writes milliseconds
unix_timestamp_millis(t) == t

\* OffsetDateTime::unix_timestamp: whole seconds since the epoch
unix_timestamp(t) == t \div 1000

\* jwt_numeric_date::serialize applied to iat and exp: the claims as encoded
SerializeClaims(claims) ==
    [iss |-> claims.iss, sub |-> claims.sub,
     iat |-> unix_timestamp(claims.iat), exp |-> unix_timestamp(claims.exp)]

\* the keys handed in: two PKCS#8 PEM keys and a text that is not one
PrivateKeys == {"key1", "key2", "not a pem"}
from_pkcs8_pem(pem) == IF pem = "not a pem" THEN NoneOpt ELSE Some(pem)
to_public_key_der(pkey) == <<"public key der", pkey>>
\* pubkey_fingerprint: base64 of the SHA-256 of the DER public key
pubkey_fingerprint(pubkey) == <<"base64", <<"sha256", pubkey>>>>

\* generate_jwt_token, the clock reading t
generate_jwt_token(pem, identifier, t) ==
    IF from_pkcs8_pem(pem) = NoneOpt
    THEN [ok |-> FALSE, err |-> "Pkcs8", claims |-> <<>>]
    ELSE LET pubk == to_public_key_der(from_pkcs8_pem(pem)[1])
             iss == <<identifier, ".SHA256:", pubkey_fingerprint(pubk)>>
             iat == t
             exp == iat + days(1)
         IN [ok |-> TRUE, err |-> "",
             claims |-> SerializeClaims(ClaimsNew(iss, identifier, iat, exp))]

\* the times at which a token is issued: around the ends of a second, a
\* minute, an hour and a day
IssueTimes ==
    {with_hms_milli(d, h, m, sec, milli) :
        d \in {0, 20}, h \in {0, 23}, m \in {0, 59}, sec \in {0, 59},
        milli \in {0, 1, 999}}
Identifiers == {"ACME.ALICE", "ACME.BOB"}

\* cert_request_body calls generate_jwt_token
IssueJwt ==
    /\ jwt = NoJwt
    /\ jwt' = generate_jwt_token(private_key_pem, full_identifier, now_utc)
    /\ UNCHANGED <<private_key_pem, full_identifier, now_utc>>
    /\ UNCHANGED <<svars, dvars, xvars, kvars, tvars, mvars>>

InitJwt ==
    /\ SessionInit /\ DispatcherIdle /\ ExecIdle /\ DecodeIdle /\ TokenIdle /\ MigrationIdle
    /\ private_key_pem \in PrivateKeys
    /\ full_identifier \in Identifiers
    /\ now_utc \in IssueTimes
    /\ jwt = NoJwt

NextJwt == IssueJwt

SpecJwt == InitJwt /\ [][NextJwt]_vars


MaxInstant == 4
\* the validities the server may send
TokenValidities == (0 - 2)..3

\* AuthToken::new is called at the current instant
NewToken ==
    /\ auth_token = NoToken
    /\ \E v \in TokenValidities :
          /\ validity' = v
          /\ auth_token' = AuthTokenNew("t", v, instant)
    /\ UNCHANGED <<instant, expired>>
    /\ UNCHANGED <<svars, dvars, xvars, kvars, jvars, mvars>>

\* time passes
Tick ==
    /\ instant < MaxInstant
    /\ instant' = instant + 1
    /\ UNCHANGED <<validity, auth_token, expired>>
    /\ UNCHANGED <<svars, dvars, xvars, kvars, jvars, mvars>>

\* AuthToken::is_expired is called
IsExpired ==
    /\ auth_token # NoToken
    /\ expired' = [at |-> instant, value |-> is_expired(auth_token, instant)]
    /\ UNCHANGED <<validity, auth_token, instant>>
    /\ UNCHANGED <<svars, dvars, xvars, kvars, jvars, mvars>>

InitToken ==
    /\ SessionInit /\ DispatcherIdle /\ ExecIdle /\ DecodeIdle /\ JwtIdle /\ MigrationIdle
    /\ validity = 0
    /\ auth_token = NoToken
    /\ instant = 0
    /\ expired = NoCheck

NextToken ==
    \/ NewToken
    \/ Tick
    \/ IsExpired

SpecToken == InitToken /\ [][NextToken]_vars


(* ------------------------- claims: AuthToken --------------------------- *)
\* C30: a token built from a negative validity is never expired; one built
\* from a validity v >= 0 is expired exactly when at least v seconds have
\* passed since it was issued, so a token of validity 0 is expired at once.
C30_Expiry ==
    expired # NoCheck =>
        LET elapsed == expired.at - auth_token.issued_on
        IN /\ validity < 0 => ~expired.value
           /\ validity >= 0 =>
                 (expired.value <=> elapsed >= validity)
           /\ (validity = 0) => expired.value

C30_Witness ==
    /\ expired # NoCheck
    /\ validity = 0
    /\ expired.at = auth_token.issued_on /\ auth_token.issued_on > 0
    /\ expired.value

(* ------------------- connection.rs: get_chunk -------------------------- *)
\* most chunks of the result
MaxChunkUrls == 2

\* chunk urls as the server gives them: a path, and a query string that is
\* empty or carries the signature of a presigned url
ChunkUrl(path, query) == [path |-> path, query |-> query]
ChunkUrls ==
    {ChunkUrl(<<"store", "/", n>>, q) :
        n \in 1..MaxChunkUrls, q \in {<<>>, <<<<"X-Amz-Signature", "sig">>>>}}

\* chunk_headers: a map, here the set of its entries
ChunkHeaderMaps ==
    {{},
     {<<"x-amz-server-side-encryption-customer-algorithm", "AES256">>},
     {<<"x-amz-server-side-encryption-customer-algorithm", "AES256">>,
      <<"x-amz-server-side-encryption-customer-key", "key">>}}

\* the chunked results: one to MaxChunkUrls chunks and the headers for them
ChunkedResponses ==
    [variant : {"Query"},
     chunks : UNION {[1..n -> ChunkUrls] : n \in 1..MaxChunkUrls},
     chunk_headers : ChunkHeaderMaps]

\* get_chunk builds the request: client.get(url).headers(header_map)
get(url, header_map) ==
    [method |-> "GET", path |-> url.path, query |-> url.query, headers |-> header_map]

\* send() on the client default_client_builder made: the request passes through
\* every middleware of the stack on its way out
ClientSend(req, client_start_time, made) ==
    IF \E i \in DOMAIN MiddlewareStack : MiddlewareStack[i] = "UuidMiddleware"
    THEN UuidHandle(req, client_start_time, made)
    ELSE req

\* what a chunk GET can meet
ChunkAnswers == {Response(200), Response(503), SendError("redirect")}

PendingGet == [st |-> "pending", tries |-> 0, wire |-> <<>>]

\* exec_arrow reaches try_join_all: one get_chunk future per listed chunk
FetchChunks ==
    /\ xpc = "idle"
    /\ fetched = <<>>
    /\ fetched' = [i \in DOMAIN resp.chunks |-> PendingGet]
    /\ xpc' = "fetching"
    /\ UNCHANGED <<sql, route, resp, completion, outcome, qreq>>
    /\ UNCHANGED <<svars, dvars, uvars, fvars>>

\* one attempt of the GET of the i-th chunk goes out and is answered; the
\* retry middleware sends it again after a transient failure. The ids of an
\* attempt are two values no other attempt has; the clock is read once per
\* attempt, later at each retry.
GetChunkAttempt(i) ==
    /\ xpc = "fetching"
    /\ i \in DOMAIN fetched
    /\ fetched[i].st = "pending"
    /\ \E ans \in ChunkAnswers :
          LET made == 2 * ((i - 1) * (MaxRetries + 1) + Len(fetched[i].wire))
              req == ClientSend(get(resp.chunks[i], resp.chunk_headers),
                                fetched[i].tries, made)
              again == Retryable(ans) = "Transient" /\ should_retry(fetched[i].tries)
          IN fetched' = [fetched EXCEPT
                 ![i].wire = Append(@, req),
                 ![i].tries = IF again THEN @ + 1 ELSE @,
                 ![i].st = IF again THEN "pending"
                           ELSE IF ans.err # "" THEN "failed" ELSE "done"]
    /\ UNCHANGED <<sql, route, resp, xpc, completion, outcome, qreq>>
    /\ UNCHANGED <<svars, dvars, uvars, fvars>>

\* try_join_all returns: with the error of a fetch that failed, or with every
\* body
ChunksJoined ==
    /\ xpc = "fetching"
    /\ \/ \E i \in DOMAIN fetched : fetched[i].st = "failed"
       \/ \A i \in DOMAIN fetched : fetched[i].st = "done"
    /\ xpc' = "done"
    /\ outcome' = IF \E i \in DOMAIN fetched : fetched[i].st = "failed"
                  THEN ErrOutcome("RequestError")
                  ELSE ArrowOutcome(<<>>)
    /\ UNCHANGED <<sql, route, resp, fetched, completion, qreq>>
    /\ UNCHANGED <<svars, dvars, uvars, fvars>>

\* a chunked Query response has come back to exec_arrow
InitChunk ==
    /\ SessionInit /\ DispatcherIdle /\ FunctionsIdle
    /\ sql = <<"x">>
    /\ route = RouteOf(sql)
    /\ resp \in ChunkedResponses
    /\ xpc = "idle"
    /\ fetched = <<>>
    /\ completion = <<>>
    /\ outcome = NoOutcome
    /\ qreq = query_context(exec_arrow_query_type)
    /\ ApiSettings /\ UploadIdle

NextChunk ==
    \/ FetchChunks
    \/ \E i \in 1..MaxChunkUrls : GetChunkAttempt(i)
    \/ ChunksJoined

SpecChunk == InitChunk /\ [][NextChunk]_vars

\* C37: every GET made for a chunk goes to the path and the query string the
\* server listed for it, unchanged, and carries exactly the entries of
\* chunk_headers, the same for every chunk of the result.
C37_ChunkGet ==
    \A i \in DOMAIN fetched :
        \A k \in DOMAIN fetched[i].wire :
            /\ fetched[i].wire[k].method = "GET"
            /\ fetched[i].wire[k].path = resp.chunks[i].path
            /\ fetched[i].wire[k].query = resp.chunks[i].query
            /\ fetched[i].wire[k].headers = resp.chunk_headers

(* ------------------ connection.rs: the request url --------------------- *)
\* most accounts a request is made for
MaxAccounts == 4

QueryTypes == {"LoginRequest", "TokenRequest", "CloseSession", "JsonQuery", "ArrowQuery"}
AccountIdentifiers == {<<"ACCOUNT", n>> : n \in 1..MaxAccounts}

\* the paths of query_context as the characters that matter in a url: the
\* segments and the '/' between and before them
Chars(path) ==
    CASE path = "session/v1/login-request" ->
            <<"session", "/", "v1", "/", "login-request">>
      [] path = "/session/token-request" -> <<"/", "session", "/", "token-request">>
      [] path = "session/token-request" -> <<"session", "/", "token-request">>
      [] path = "session" -> <<"session">>
      [] path = "queries/v1/query-request" ->
            <<"queries", "/", "v1", "/", "query-request">>

\* Connection::new: https and the Snowflake domain
ConnectionNew == [scheme |-> "https", base_url |-> ".snowflakecomputing.com"]

\* format!("{}://{}{}/{}", scheme, account_identifier, base_url, context.path)
format_url(scheme, account_identifier, base_url, path) ==
    <<scheme, "://", account_identifier, base_url, "/">> \o Chars(path)

\* the request Connection::request hands to the client
BuildRequest(conn, query_type, account_identifier, extra_get_params, auth) ==
    LET context == query_context(query_type)
    IN [query_type |-> query_type,
        account |-> account_identifier,
        url |-> format_url(conn.scheme, account_identifier, conn.base_url, context.path),
        query |-> extra_get_params,
        accept |-> context.accept_mime,
        authorization |-> auth]

\* Connection::request is called with any endpoint kind, account, parameters
\* and authorization
RequestUrl ==
    /\ dstate = "idle"
    /\ \E query_type \in QueryTypes, account \in AccountIdentifiers,
          extra_get_params \in BaseQueries,
          auth \in {NoneOpt, Some("Snowflake Token"), Some("Bearer")} :
          dreq' = BuildRequest(ConnectionNew, query_type, account, extra_get_params, auth)
    /\ dstate' = "sending"
    /\ UNCHANGED <<attempts, n_past_retries, result, uuids>>
    /\ UNCHANGED <<svars, xvars, fvars>>

NextUrl == RequestUrl

SpecUrl == Init /\ [][NextUrl]_vars

\* the endpoints as the table of the specification lists them
EndpointPath(query_type) ==
    CASE query_type = "LoginRequest" -> "session/v1/login-request"
      [] query_type = "TokenRequest" -> "session/token-request"
      [] query_type = "CloseSession" -> "session"
      [] query_type = "JsonQuery" -> "queries/v1/query-request"
      [] query_type = "ArrowQuery" -> "queries/v1/query-request"
EndpointAccept(query_type) ==
    IF query_type \in {"LoginRequest", "JsonQuery"}
    THEN "application/json" ELSE "application/snowflake"

\* C38: the url of a request is https://{account}.snowflakecomputing.com/{path}
\* with one '/' between host and path, and path and Accept are those of the
\* endpoint kind: login session/v1/login-request json, renew
\* session/token-request snowflake, close session snowflake, JSON query and
\* tabular query queries/v1/query-request with json and snowflake.
C38_Endpoints ==
    dstate = "sending" =>
        /\ dreq.url = <<"https", "://", dreq.account, ".snowflakecomputing.com", "/">>
                          \o Chars(EndpointPath(dreq.query_type))
        /\ dreq.url[6] # "/"
        /\ dreq.accept = EndpointAccept(dreq.query_type)

(* ---------------------- migration.rs: split_query ---------------------- *)
\* longest script, in lexemes
MaxScriptLen == 5

\* the lexemes of a script: words, the statement separator, the line break,
\* the blank, and the openers and closer of comments
ScriptLexemes == {"a", "b", ";", "\n", " ", "--", "/*", "*/"}
Scripts == UNION {[1..n -> ScriptLexemes] : n \in 0..MaxScriptLen}

\* BLOCK_COMMENT_RE.replace_all(query, ""): each "/*" up to the nearest "*/"
\* after it is taken out, leftmost first; a "/*" with no "*/" after it stays
RECURSIVE replace_all_block_comments(_)
replace_all_block_comments(str) ==
    IF str = <<>> THEN <<>>
    ELSE IF Head(str) = "/*" /\ Positions(Tail(str), "*/") # {}
    THEN replace_all_block_comments(
             SubSeq(Tail(str), Min(Positions(Tail(str), "*/")) + 1, Len(Tail(str))))
    ELSE <<Head(str)>> \o replace_all_block_comments(Tail(str))

\* str::split: the pieces between the delimiters, empty ones included
RECURSIVE split(_, _)
split(str, delimiter) ==
    IF Positions(str, delimiter) = {} THEN <<str>>
    ELSE LET i == Min(Positions(str, delimiter))
         IN <<SubSeq(str, 1, i - 1)>> \o split(SubSeq(str, i + 1, Len(str)), delimiter)

\* str::lines: the pieces between line breaks, without a last empty one
lines(str) ==
    LET pieces == split(str, "\n")
    IN IF pieces[Len(pieces)] = <<>> THEN SubSeq(pieces, 1, Len(pieces) - 1) ELSE pieces

\* str::trim: blanks and line breaks at both ends are taken off
Whitespace == {" ", "\n"}
RECURSIVE trim_start(_)
trim_start(str) ==
    IF str # <<>> /\ Head(str) \in Whitespace THEN trim_start(Tail(str)) ELSE str
RECURSIVE trim_end(_)
trim_end(str) ==
    IF str # <<>> /\ str[Len(str)] \in Whitespace
    THEN trim_end(SubSeq(str, 1, Len(str) - 1)) ELSE str
trim(str) == trim_end(trim_start(str))

\* a filter that keeps the comment lines
keep_line_with_comments(s) == s # <<>>

\* the filter on the trimmed lines: !s.is_empty() && !s.starts_with("--")
keep_line(s) == s # <<>> /\ Head(s) # "--"

is_not_empty(s) == s # <<>>

\* join(" ")
RECURSIVE join(_, _)
join(strs, sep) ==
    IF strs = <<>> THEN <<>>
    ELSE IF Len(strs) = 1 THEN strs[1]
    ELSE strs[1] \o <<sep>> \o join(Tail(strs), sep)

MapTrim(strs) == [i \in DOMAIN strs |-> trim(strs[i])]

split_query(query) ==
    LET query_without_block_comments == replace_all_block_comments(query)
        concatenated ==
            join(SelectSeq(MapTrim(lines(query_without_block_comments)), keep_line), " ")
    IN SelectSeq(MapTrim(split(concatenated, ";")), is_not_empty)

\* split_query is called on a script
SplitQuery ==
    /\ mpc = "idle"
    /\ statements = <<>>
    /\ statements' = split_query(script)
    /\ mpc' = "split"
    /\ UNCHANGED <<script, queries, issued, previous, todo, mresult>>
    /\ UNCHANGED <<svars, dvars, xvars, kvars, jvars, tvars>>

InitSplit ==
    /\ SessionInit /\ DispatcherIdle /\ ExecIdle /\ DecodeIdle /\ JwtIdle /\ TokenIdle
    /\ script \in Scripts
    /\ statements = <<>>
    /\ queries = <<>>
    /\ issued = <<>>
    /\ mpc = "idle"
    /\ previous = NoPrevious
    /\ todo = <<>>
    /\ mresult = "none"

NextSplit == SplitQuery

SpecSplit == InitSplit /\ [][NextSplit]_vars

\* the script read by positions. The closer of a "/*" is the nearest "*/"
\* after it; a "/*" opens a comment when it has a closer and lies in no
\* comment opened before it; a lexeme is in a comment from its opener to the
\* closer
Closer(str, j) == Min({Len(str) + 1} \cup {k \in (j + 1)..Len(str) : str[k] = "*/"})
RECURSIVE Opens(_, _)
Opens(str, j) ==
    /\ str[j] = "/*"
    /\ Closer(str, j) <= Len(str)
    /\ \A h \in 1..(j - 1) : Opens(str, h) => Closer(str, h) < j
InBlock(str, i) == \E j \in 1..i : Opens(str, j) /\ i <= Closer(str, j)
\* the script without its block comments, by positions
Uncommented(str) ==
    LET Outside(i) == ~InBlock(str, i)
        idx == SelectSeq([i \in 1..Len(str) |-> i], Outside)
    IN [k \in DOMAIN idx |-> str[idx[k]]]
\* the first lexeme of the line of position i that is not white space
LineOpener(str, i) ==
    LET start == Max({0} \cup {j \in 1..(i - 1) : str[j] = "\n"}) + 1
        solid == {j \in start..Len(str) : str[j] \notin Whitespace}
        stop == Min({Len(str) + 1} \cup {j \in start..Len(str) : str[j] = "\n"})
    IN IF {j \in solid : j < stop} = {} THEN "" ELSE str[Min({j \in solid : j < stop})]
\* the words and separators of the lines that are not "--" lines, in order
Solid(str) ==
    LET Kept(i) == str[i] \notin Whitespace /\ LineOpener(str, i) # "--"
        idx == SelectSeq([i \in 1..Len(str) |-> i], Kept)
    IN [k \in DOMAIN idx |-> str[idx[k]]]
NoBlanks(str) == SelectSeq(str, LAMBDA c : c \notin Whitespace)

\* C40: the statements split_query returns are, blanks aside, the text of
\* the script without its block comments and its "--" lines cut at each ';',
\* in the order of the script; no statement is empty, none contains a ';' or
\* a line break, none begins or ends with a blank, and lines are joined with
\* one blank.
C40_SplitQuery ==
    mpc = "split" =>
        /\ \A k \in DOMAIN statements :
              /\ statements[k] # <<>>
              /\ Positions(statements[k], ";") = {}
              /\ Positions(statements[k], "\n") = {}
              /\ Head(statements[k]) # " "
              /\ statements[k][Len(statements[k])] # " "
        /\ [k \in DOMAIN statements |-> NoBlanks(statements[k])] =
              SelectSeq(split(Solid(Uncommented(script)), ";"), is_not_empty)
        /\ Positions(script, " ") = {} =>
              \A k \in DOMAIN statements :
                  \A i \in 1..(Len(statements[k]) - 1) :
                      ~(statements[k][i] = " " /\ statements[k][i + 1] = " ")

C40_Witness ==
    /\ mpc = "split"
    /\ script = <<"--", "a", "\n", "b", ";">> \/ script = <<"a", "\n", "b", ";", "a">>
    /\ statements \in {<<<<"b">>>>, <<<<"a", " ", "b">>, <<"a">>>>}

(* ---------------- migration.rs: AsyncTransaction::execute -------------- *)
\* most scripts one execute is given
MaxQueries == 2

\* the scripts refinery hands over: one statement, two statements on two
\* lines, and a script that is only a comment
QueryScripts == {<<"a", ";">>, <<"b", ";", "\n", "c">>, <<"--", "a">>}
QueryLists == UNION {[1..n -> QueryScripts] : n \in 0..MaxQueries}

\* the statements execute passes to exec() as literals
SelectCurrentDatabase == <<"SELECT CURRENT_DATABASE()", ";">>
SelectCurrentRole == <<"SELECT CURRENT_ROLE()", ";">>
BeginTransaction == <<"BEGIN TRANSACTION", ";">>
Commit == <<"COMMIT", ";">>
\* format!("USE DATABASE {previous_database};") and format!("USE ROLE {previous_role};")
db_query(previous_database) == <<"USE DATABASE", " ", previous_database, ";">>
role_query(previous_role) == <<"USE ROLE", " ", previous_role, ";">>

\* modified_queries: all but the last query, the two USE statements, the
\* last query
modified_queries(qs, previous_database, previous_role) ==
    SubSeq(qs, 1, Len(qs) - 1)
        \o <<db_query(previous_database), role_query(previous_role)>>
        \o <<qs[Len(qs)]>>

\* the statements of the nested loops, in the order they are run
RECURSIVE SplitAll(_)
SplitAll(qs) == IF qs = <<>> THEN <<>> ELSE split_query(Head(qs)) \o SplitAll(Tail(qs))

\* what exec() can give back
ExecOutcomes == {"Arrow", "Json", "Empty", "Err"}

\* execute is called: SELECT CURRENT_DATABASE() is run first
SelectDatabase ==
    /\ mpc = "idle"
    /\ issued = <<>>
    /\ issued' = Append(issued, SelectCurrentDatabase)
    /\ \E r \in ExecOutcomes :
          IF r = "Err"
          THEN mpc' = "done" /\ mresult' = "Err" /\ UNCHANGED previous
          ELSE /\ mpc' = "role"
               /\ previous' = [previous EXCEPT !.database_result = r,
                                               !.database = IF r = "Arrow" THEN "DB" ELSE ""]
               /\ UNCHANGED mresult
    /\ UNCHANGED <<script, statements, queries, todo>>
    /\ UNCHANGED <<svars, dvars, xvars, kvars, jvars, tvars>>

\* SELECT CURRENT_ROLE() is run, then the two results are matched, the role
\* first
SelectRole ==
    /\ mpc = "role"
    /\ issued' = Append(issued, SelectCurrentRole)
    /\ \E r \in ExecOutcomes :
          IF r = "Err"
          THEN mpc' = "done" /\ mresult' = "Err" /\ UNCHANGED previous
          ELSE IF r # "Arrow" \/ previous.database_result # "Arrow"
          THEN mpc' = "done" /\ mresult' = "UnexpectedResponse" /\ UNCHANGED previous
          ELSE /\ mpc' = "begin"
               /\ previous' = [previous EXCEPT !.role = "ROLE"]
               /\ UNCHANGED mresult
    /\ UNCHANGED <<script, statements, queries, todo>>
    /\ UNCHANGED <<svars, dvars, xvars, kvars, jvars, tvars>>

\* BEGIN TRANSACTION is run; then the list of queries is rebuilt, which
\* indexes queries[..queries.len() - 1] and panics on an empty slice
Begin ==
    /\ mpc = "begin"
    /\ issued' = Append(issued, BeginTransaction)
    /\ \E ok \in BOOLEAN :
          IF ~ok
          THEN mpc' = "done" /\ mresult' = "Err" /\ UNCHANGED todo
          ELSE IF queries = <<>>
          THEN mpc' = "done" /\ mresult' = "panic" /\ UNCHANGED todo
          ELSE /\ mpc' = "run"
               /\ todo' = SplitAll(modified_queries(queries, previous.database,
                                                    previous.role))
               /\ UNCHANGED mresult
    /\ UNCHANGED <<script, statements, queries, previous>>
    /\ UNCHANGED <<svars, dvars, xvars, kvars, jvars, tvars>>

\* one turn of the inner loop: the next statement is run
RunStatement ==
    /\ mpc = "run"
    /\ todo # <<>>
    /\ issued' = Append(issued, Head(todo))
    /\ \E ok \in BOOLEAN :
          IF ok
          THEN todo' = Tail(todo) /\ UNCHANGED <<mpc, mresult>>
          ELSE mpc' = "done" /\ mresult' = "Err" /\ UNCHANGED todo
    /\ UNCHANGED <<script, statements, queries, previous>>
    /\ UNCHANGED <<svars, dvars, xvars, kvars, jvars, tvars>>

\* the loops are over: COMMIT is run and execute returns Ok(queries.len())
RunCommit ==
    /\ mpc = "run"
    /\ todo = <<>>
    /\ issued' = Append(issued, Commit)
    /\ \E ok \in BOOLEAN : mresult' = IF ok THEN "Ok" ELSE "Err"
    /\ mpc' = "done"
    /\ UNCHANGED <<script, statements, queries, previous, todo>>
    /\ UNCHANGED <<svars, dvars, xvars, kvars, jvars, tvars>>

InitMigrate ==
    /\ SessionInit /\ DispatcherIdle /\ ExecIdle /\ DecodeIdle /\ JwtIdle /\ TokenIdle
    /\ script = <<>>
    /\ statements = <<>>
    /\ queries \in QueryLists
    /\ issued = <<>>
    /\ mpc = "idle"
    /\ previous = NoPrevious
    /\ todo = <<>>
    /\ mresult = "none"

NextMigrate ==
    \/ SelectDatabase
    \/ SelectRole
    \/ Begin
    \/ RunStatement
    \/ RunCommit

SpecMigrate == InitMigrate /\ [][NextMigrate]_vars

\* the statements before the transaction
Preamble == {SelectCurrentDatabase, SelectCurrentRole}
\* the statements a full run issues between BEGIN and COMMIT
InTransaction ==
    SplitAll(SubSeq(queries, 1, Len(queries) - 1))
        \o <<<<"USE DATABASE", " ", "DB">>, <<"USE ROLE", " ", "ROLE">>>>
        \o (IF queries = <<>> THEN <<>> ELSE split_query(queries[Len(queries)]))
StatementFailed == mresult \in {"Err", "UnexpectedResponse"}

\* C39: BEGIN TRANSACTION comes before every migration statement; when no
\* statement fails, execute ends having issued the statements of all but
\* the last query in order, USE DATABASE and USE ROLE, the statements of the
\* last query, and COMMIT last; when a statement fails, no COMMIT was issued
\* before it.
C39_Transaction ==
    /\ \A i \in DOMAIN issued :
          issued[i] \notin Preamble \cup {BeginTransaction} =>
              \E j \in 1..(i - 1) : issued[j] = BeginTransaction
    /\ (mpc = "done" /\ ~StatementFailed) =>
          /\ issued[Len(issued)] = Commit
          /\ issued = <<SelectCurrentDatabase, SelectCurrentRole, BeginTransaction>>
                          \o InTransaction \o <<Commit>>
    /\ (mpc = "done" /\ StatementFailed) =>
          \A i \in 1..(Len(issued) - 1) : issued[i] # Commit
====
